---------------------------- MODULE Spec2Model ----------------------------
(***************************************************************************)
(* Formula evaluation and dual-axis chart composition of the COT           *)
(* visualisation app (src/app.py), with the column alias registry          *)
(* (src/column_mapping.py).                                                *)
(*                                                                         *)
(* Text is modelled character by character: a Python str is a sequence of  *)
(* one-character strings, so that the regular expressions of the source    *)
(* (\b word boundaries, IGNORECASE, longest-first substitution) act on the *)
(* model as they act on the program's text.                                *)
(***************************************************************************)
EXTENDS Integers, Sequences, FiniteSets, TLC

(***************************************************************************)
(* Characters                                                              *)
(***************************************************************************)
UpperSeq ==
    <<"A", "B", "C", "D", "E", "F", "G", "H", "I", "J", "K", "L", "M",
      "N", "O", "P", "Q", "R", "S", "T", "U", "V", "W", "X", "Y", "Z">>

LowerSeq ==
    <<"a", "b", "c", "d", "e", "f", "g", "h", "i", "j", "k", "l", "m",
      "n", "o", "p", "q", "r", "s", "t", "u", "v", "w", "x", "y", "z">>

DigitSeq ==
    <<"0", "1", "2", "3", "4", "5", "6", "7", "8", "9">>

Range(s) == {s[i] : i \in 1..Len(s)}

Letters == Range(UpperSeq) \cup Range(LowerSeq)

Digits == Range(DigitSeq)

WordChars == Letters \cup Digits \cup {"_"}

\* \w of Python's re, on the ASCII text the model uses: [A-Za-z0-9_]
IsWordChar(c) == c \in WordChars

LowerOf ==
    [c \in Range(UpperSeq) |->
        LowerSeq[CHOOSE i \in 1..Len(UpperSeq) : UpperSeq[i] = c]]

\* re.IGNORECASE compares characters by their lower-case form
Lower(c) == IF c \in DOMAIN LowerOf THEN LowerOf[c] ELSE c

\* \s of Python's re, and what str.strip() removes
IsSpace(c) == c \in {" ", "\t", "\n"}

\* the operator class [+\-*/] of the whitespace normalisation
IsOperatorChar(c) == c \in {"+", "-", "*", "/"}

(***************************************************************************)
(* Column names and short labels (src/column_mapping.py).  The dataset of  *)
(* the model is the cot_data table projected on seven of its columns.        *)
(***************************************************************************)
As_of_Date_In_Form_YYMMDD ==
    <<"A", "s", "_", "o", "f", "_", "D", "a", "t", "e", "_", "I", "n", "_",
      "F", "o", "r", "m", "_", "Y", "Y", "M", "M", "D", "D">>

Commodity_Name ==
    <<"C", "o", "m", "m", "o", "d", "i", "t", "y", "_", "N", "a", "m", "e">>

Open_Interest_All ==
    <<"O", "p", "e", "n", "_", "I", "n", "t", "e", "r", "e", "s", "t", "_",
      "A", "l", "l">>

M_Money_Positions_Long_ALL ==
    <<"M", "_", "M", "o", "n", "e", "y", "_", "P", "o", "s", "i", "t", "i",
      "o", "n", "s", "_", "L", "o", "n", "g", "_", "A", "L", "L">>

M_Money_Positions_Short_ALL ==
    <<"M", "_", "M", "o", "n", "e", "y", "_", "P", "o", "s", "i", "t", "i",
      "o", "n", "s", "_", "S", "h", "o", "r", "t", "_", "A", "L", "L">>

Pct_of_OI_M_Money_Long_All ==
    <<"P", "c", "t", "_", "o", "f", "_", "O", "I", "_", "M", "_", "M", "o",
      "n", "e", "y", "_", "L", "o", "n", "g", "_", "A", "l", "l">>

Pct_of_OI_M_Money_Short_All ==
    <<"P", "c", "t", "_", "o", "f", "_", "O", "I", "_", "M", "_", "M", "o",
      "n", "e", "y", "_", "S", "h", "o", "r", "t", "_", "A", "l", "l">>

Short_Date == <<"D", "a", "t", "e">>

Short_Open_Interest ==
    <<"O", "p", "e", "n", " ", "I", "n", "t", "e", "r", "e", "s", "t">>

Short_MM_Long == <<"M", "M", " ", "L", "o", "n", "g">>

Short_MM_Short == <<"M", "M", " ", "S", "h", "o", "r", "t">>

Short_Pct_OI_MM_Long ==
    <<"%", " ", "O", "I", " ", "M", "M", " ", "L", "o", "n", "g">>

Short_Pct_OI_MM_Short ==
    <<"%", " ", "O", "I", " ", "M", "M", " ", "S", "h", "o", "r", "t">>

COLUMN_MAPPING_sharing_a_label ==
    << <<As_of_Date_In_Form_YYMMDD, Short_Date>>,
       <<Open_Interest_All, Short_Open_Interest>>,
       <<M_Money_Positions_Long_ALL, Short_MM_Long>>,
       <<M_Money_Positions_Short_ALL, Short_MM_Long>>,
       <<Pct_of_OI_M_Money_Long_All, Short_Pct_OI_MM_Long>>,
       <<Pct_of_OI_M_Money_Short_All, Short_Pct_OI_MM_Short>> >>

\* COLUMN_MAPPING, the entries of the modelled columns: <<id, short_name>>
COLUMN_MAPPING ==
    << <<As_of_Date_In_Form_YYMMDD, Short_Date>>,
       <<Open_Interest_All, Short_Open_Interest>>,
       <<M_Money_Positions_Long_ALL, Short_MM_Long>>,
       <<M_Money_Positions_Short_ALL, Short_MM_Short>>,
       <<Pct_of_OI_M_Money_Long_All, Short_Pct_OI_MM_Long>>,
       <<Pct_of_OI_M_Money_Short_All, Short_Pct_OI_MM_Short>> >>

\* COLUMN_MAPPING.get(column_name, {}).get('short_name', column_name)
get_short_name(column_name) ==
    IF \E i \in 1..Len(COLUMN_MAPPING) : COLUMN_MAPPING[i][1] = column_name
    THEN COLUMN_MAPPING[CHOOSE i \in 1..Len(COLUMN_MAPPING) :
                            COLUMN_MAPPING[i][1] = column_name][2]
    ELSE column_name

\* data.columns of the positioning table, in the table's column order
data_columns ==
    <<As_of_Date_In_Form_YYMMDD, Open_Interest_All,
      M_Money_Positions_Long_ALL, M_Money_Positions_Short_ALL,
      Pct_of_OI_M_Money_Long_All, Pct_of_OI_M_Money_Short_All,
      Commodity_Name>>

\* filtered_data.select_dtypes(include=['number']).columns.tolist()
numeric_columns ==
    <<Open_Interest_All, M_Money_Positions_Long_ALL,
      M_Money_Positions_Short_ALL, Pct_of_OI_M_Money_Long_All,
      Pct_of_OI_M_Money_Short_All>>

\* dict assignment d[key] = value on a dict kept as its items() sequence:
\* an existing key keeps its place and takes the new value
DictSet(d, key, value) ==
    IF \E i \in 1..Len(d) : d[i][1] = key
    THEN [i \in 1..Len(d) |-> IF d[i][1] = key THEN <<key, value>> ELSE d[i]]
    ELSE Append(d, <<key, value>>)

RECURSIVE ShortToTechnicalFirstColumn(_, _)
ShortToTechnicalFirstColumn(cols, n) ==
    IF n = 0 THEN <<>>
    ELSE DictSet(ShortToTechnicalFirstColumn(cols, n - 1),
                 get_short_name(cols[n]), cols[1])

RECURSIVE ShortToTechnicalUpTo(_, _)
ShortToTechnicalUpTo(cols, n) ==
    IF n = 0 THEN <<>>
    ELSE DictSet(ShortToTechnicalUpTo(cols, n - 1),
                 get_short_name(cols[n]), cols[n])

\* for col in numeric_columns: short_to_technical[get_short_name(col)] = col
short_to_technical == ShortToTechnicalUpTo(numeric_columns, Len(numeric_columns))

(***************************************************************************)
(* Formula translator: convert_short_names_to_technical                    *)
(***************************************************************************)
\* whether position k of s (1-based) holds a word character
IsWordAt(s, k) == k >= 1 /\ k <= Len(s) /\ IsWordChar(s[k])

\* \b between s[k] and s[k+1] (k = 0 is the start, k = Len(s) the end)
WordBoundary(s, k) == IsWordAt(s, k) # IsWordAt(s, k + 1)

\* the escaped label matched literally at s[i..], ignoring case
LiteralAt(s, i, short_name) ==
    /\ i + Len(short_name) - 1 <= Len(s)
    /\ \A j \in 1..Len(short_name) :
           Lower(s[i + j - 1]) = Lower(short_name[j])

\* r'\b' + re.escape(short_name) + r'\b' matching at index i
PatternMatchesAt(s, i, short_name) ==
    /\ LiteralAt(s, i, short_name)
    /\ WordBoundary(s, i - 1)
    /\ WordBoundary(s, i + Len(short_name) - 1)

\* the first index from i on where the pattern matches, 0 when there is none
RECURSIVE NextMatch(_, _, _)
NextMatch(s, i, short_name) ==
    IF i + Len(short_name) - 1 > Len(s) THEN 0
    ELSE IF PatternMatchesAt(s, i, short_name) THEN i
    ELSE NextMatch(s, i + 1, short_name)

\* re.sub(pattern, technical_name, s, flags=re.IGNORECASE): the matches are
\* found left to right and do not overlap
RECURSIVE ReSubFrom(_, _, _, _)
ReSubFrom(s, i, short_name, technical_name) ==
    LET m == NextMatch(s, i, short_name)
    IN  IF m = 0 THEN SubSeq(s, i, Len(s))
        ELSE SubSeq(s, i, m - 1) \o technical_name
                 \o ReSubFrom(s, m + Len(short_name), short_name, technical_name)

\* one item put into a list sorted by key length, longest first; items of
\* equal length keep their order (Python's sort is stable, also reversed)
RECURSIVE InsertByLength(_, _)
InsertByLength(sorted, item) ==
    IF sorted = <<>> THEN <<item>>
    ELSE IF Len(Head(sorted)[1]) >= Len(item[1])
         THEN <<Head(sorted)>> \o InsertByLength(Tail(sorted), item)
         ELSE <<item>> \o sorted

RECURSIVE SortedUpTo(_, _)
SortedUpTo(items, n) ==
    IF n = 0 THEN <<>>
    ELSE InsertByLength(SortedUpTo(items, n - 1), items[n])

\* sorted(short_to_technical_map.items(), key=lambda x: len(x[0]), reverse=True)
sorted_short_names(short_to_technical_map) ==
    SortedUpTo(short_to_technical_map, Len(short_to_technical_map))

RECURSIVE SubstituteAll(_, _, _)
SubstituteAll(text, names, n) ==
    IF n > Len(names) THEN text
    ELSE SubstituteAll(ReSubFrom(text, 1, names[n][1], names[n][2]), names, n + 1)

convert_short_names_to_technical(formula, short_to_technical_map) ==
    SubstituteAll(formula, sorted_short_names(short_to_technical_map), 1)

(***************************************************************************)
(* Formula validator: the character check and the column check             *)
(***************************************************************************)
\* app.py:328
allowed_chars_without_brackets ==
    {"+", "-", "*", "/", "(", ")", ".", ","}
        \cup Digits \cup {"_"} \cup Letters \cup {" "}

allowed_chars ==
    {"+", "-", "*", "/", "(", ")", "[", "]", ".", ","}
        \cup Digits \cup {"_"} \cup Letters \cup {" "}

AnyCharsAllowed(formula) == TRUE

\* all(c in allowed_chars for c in formula)
AllCharsAllowed(formula) == \A i \in 1..Len(formula) : formula[i] \in allowed_chars

\* [A-Za-z_], the first character of an identifier
IdentifierStart == Letters \cup {"_"}

\* the end of the run of word characters that starts at i
RECURSIVE WordEnd(_, _)
WordEnd(s, i) == IF IsWordAt(s, i + 1) THEN WordEnd(s, i + 1) ELSE i

\* re.findall(r'\b[A-Za-z_][A-Za-z0-9_]*\b', formula)
RECURSIVE FindIdentifiersFrom(_, _)
FindIdentifiersFrom(s, i) ==
    IF i > Len(s) THEN <<>>
    ELSE IF s[i] \in IdentifierStart /\ WordBoundary(s, i - 1)
         THEN <<SubSeq(s, i, WordEnd(s, i))>> \o FindIdentifiersFrom(s, WordEnd(s, i) + 1)
         ELSE FindIdentifiersFrom(s, i + 1)

potential_columns(formula) == FindIdentifiersFrom(formula, 1)

\* [x for x in xs if x not in excluded]
RECURSIVE FilterNotIn(_, _)
FilterNotIn(xs, excluded) ==
    IF xs = <<>> THEN <<>>
    ELSE IF Head(xs) \in excluded
         THEN FilterNotIn(Tail(xs), excluded)
         ELSE <<Head(xs)>> \o FilterNotIn(Tail(xs), excluded)

\* app.py:340  ['min', 'max', 'sum', 'abs', 'round']
function_keywords_without_min ==
    { <<"m", "a", "x">>, <<"s", "u", "m">>, <<"a", "b", "s">>,
      <<"r", "o", "u", "n", "d">> }

function_keywords ==
    { <<"m", "i", "n">>, <<"m", "a", "x">>, <<"s", "u", "m">>,
      <<"a", "b", "s">>, <<"r", "o", "u", "n", "d">> }

\* missing_columns, then actual_missing
actual_missing(formula, columns) ==
    FilterNotIn(FilterNotIn(potential_columns(formula), Range(columns)),
                function_keywords)

(***************************************************************************)
(* Numbers.  A value of a numeric column or of an expression is n/d:       *)
(* d > 0 a finite number in lowest terms, 1/0 and -1/0 the infinities,     *)
(* 0/0 not-a-number (also a missing value of a column).  The operations    *)
(* are those of IEEE-754 as numpy applies them element by element, exact   *)
(* on the small numbers of the model (no rounding, no signed zero).        *)
(***************************************************************************)
NaN == [n |-> 0, d |-> 0]

Infinity(sign) == [n |-> sign, d |-> 0]

IsNaN(a) == a.d = 0 /\ a.n = 0

IsInf(a) == a.d = 0 /\ a.n # 0

IsFinite(a) == a.d > 0

Abs(i) == IF i < 0 THEN -i ELSE i

Sign(i) == IF i < 0 THEN -1 ELSE IF i > 0 THEN 1 ELSE 0

RECURSIVE GCD(_, _)
GCD(a, b) == IF b = 0 THEN a ELSE GCD(b, a % b)

\* num/den in lowest terms, den # 0
Ratio(num, den) ==
    LET g == GCD(Abs(num), Abs(den))
    IN  [n |-> Sign(den) * (num \div g), d |-> Abs(den) \div g]

Number(i) == [n |-> i, d |-> 1]

Add(a, b) ==
    IF IsNaN(a) \/ IsNaN(b) THEN NaN
    ELSE IF IsInf(a) /\ IsInf(b) THEN (IF a.n = b.n THEN a ELSE NaN)
    ELSE IF IsInf(a) THEN a
    ELSE IF IsInf(b) THEN b
    ELSE Ratio(a.n * b.d + b.n * a.d, a.d * b.d)

Neg(a) == [n |-> -a.n, d |-> a.d]

Sub(a, b) == Add(a, Neg(b))

Mul(a, b) ==
    IF IsNaN(a) \/ IsNaN(b) THEN NaN
    ELSE IF IsInf(a) \/ IsInf(b)
         THEN (IF a.n = 0 \/ b.n = 0 THEN NaN
               ELSE Infinity(Sign(a.n) * Sign(b.n)))
    ELSE Ratio(a.n * b.n, a.d * b.d)

\* true division: x/0 is an infinity for x # 0 and not-a-number for x = 0
Div(a, b) ==
    IF IsNaN(a) \/ IsNaN(b) THEN NaN
    ELSE IF IsInf(b) THEN (IF IsInf(a) THEN NaN ELSE Number(0))
    ELSE IF b.n = 0 THEN (IF a.n = 0 THEN NaN ELSE Infinity(Sign(a.n)))
    ELSE IF IsInf(a) THEN Infinity(Sign(a.n) * Sign(b.n))
    ELSE Ratio(a.n * b.d, a.d * b.n)

\* a to a whole power n >= 0: 1 for n = 0, of not-a-number too
RECURSIVE PowInt(_, _)
PowInt(a, n) == IF n = 0 THEN Number(1) ELSE Mul(a, PowInt(a, n - 1))

\* the exponents the model interprets: a whole number >= 0, and
\* not-a-number.  A negative exponent raises on an integer column and gives
\* the reciprocal on a float one; a fraction gives a root.
PowInterpreted(b) == IsNaN(b) \/ (IsFinite(b) /\ b.d = 1 /\ b.n >= 0)

\* a ** b of an interpreted exponent: 1 ** nan is 1
Pow(a, b) ==
    IF IsNaN(b) THEN (IF a = Number(1) THEN a ELSE NaN) ELSE PowInt(a, b.n)

ApplyScalar(op, a, b) ==
    CASE op = "+" -> Add(a, b)
      [] op = "-" -> Sub(a, b)
      [] op = "*" -> Mul(a, b)
      [] op = "/" -> Div(a, b)
      [] op = "**" -> Pow(a, b)

(***************************************************************************)
(* Expression values: a scalar, or a series with one value per row         *)
(***************************************************************************)
Scalar(v) == [kind |-> "scalar", v |-> v, vs |-> <<>>]

Series(vs) == [kind |-> "series", v |-> NaN, vs |-> vs]

\* a value the model does not compute
Uninterpreted == [kind |-> "other", v |-> NaN, vs |-> <<>>]

\* a binary operator of pandas: element by element, a scalar broadcast
ApplyBinary(op, x, y) ==
    IF \/ x.kind = "other" \/ y.kind = "other"
       \/ /\ op = "**"
          /\ \/ y.kind = "scalar" /\ ~PowInterpreted(y.v)
             \/ \E i \in 1..Len(y.vs) : ~PowInterpreted(y.vs[i])
    THEN Uninterpreted
    ELSE IF x.kind = "scalar" /\ y.kind = "scalar"
    THEN Scalar(ApplyScalar(op, x.v, y.v))
    ELSE IF x.kind = "scalar"
    THEN Series([i \in 1..Len(y.vs) |-> ApplyScalar(op, x.v, y.vs[i])])
    ELSE IF y.kind = "scalar"
    THEN Series([i \in 1..Len(x.vs) |-> ApplyScalar(op, x.vs[i], y.v)])
    ELSE Series([i \in 1..Len(x.vs) |-> ApplyScalar(op, x.vs[i], y.vs[i])])

ApplyNegate(x) ==
    IF x.kind = "other" THEN x
    ELSE IF x.kind = "scalar" THEN Scalar(Neg(x.v))
    ELSE Series([i \in 1..Len(x.vs) |-> Neg(x.vs[i])])

\* the place of a column among the numeric columns, 0 when it is not one
NumericIndex(name) ==
    IF \E i \in 1..Len(numeric_columns) : numeric_columns[i] = name
    THEN CHOOSE i \in 1..Len(numeric_columns) : numeric_columns[i] = name
    ELSE 0

\* data[name] of a numeric column: its values in row order
ColumnValues(data, name) ==
    [i \in 1..Len(data) |-> data[i].num[NumericIndex(name)]]

(***************************************************************************)
(* Formula evaluator: data.eval(formula) of pandas on the arithmetic       *)
(* expressions the validator lets through.  Numbers are integer literals,  *)
(* names are columns, the operators are + - * / ** (binary) and + -        *)
(* (unary), with Python's precedence.  Syntax outside this grammar (a      *)
(* subscript, a call, a tuple, an attribute, a float or exponent literal,  *)
(* a column that is not numeric) and the // operator, which the numexpr    *)
(* engine refuses and the python engine computes, are not interpreted:     *)
(* the outcome is left open between some value and an exception.           *)
(***************************************************************************)
Token(t, text) == [t |-> t, text |-> text]

RECURSIVE DigitEnd(_, _)
DigitEnd(s, i) ==
    IF i + 1 <= Len(s) /\ s[i + 1] \in Digits THEN DigitEnd(s, i + 1) ELSE i

RECURSIVE TokensFrom(_, _)
TokensFrom(s, i) ==
    IF i > Len(s) THEN <<>>
    ELSE IF IsSpace(s[i]) THEN TokensFrom(s, i + 1)
    ELSE IF s[i] \in Digits
    THEN LET e == DigitEnd(s, i)
         IN  IF e + 1 <= Len(s) /\ (IsWordChar(s[e + 1]) \/ s[e + 1] = ".")
             THEN <<Token("other", SubSeq(s, i, e + 1))>> \o TokensFrom(s, e + 2)
             ELSE <<Token("num", SubSeq(s, i, e))>> \o TokensFrom(s, e + 1)
    ELSE IF IsWordChar(s[i])
    THEN <<Token("name", SubSeq(s, i, WordEnd(s, i)))>>
             \o TokensFrom(s, WordEnd(s, i) + 1)
    ELSE IF s[i] \in {"*", "/"} /\ i + 1 <= Len(s) /\ s[i + 1] = s[i]
    THEN <<Token(IF s[i] = "*" THEN "pow" ELSE "other", <<s[i], s[i]>>)>>
             \o TokensFrom(s, i + 2)
    ELSE IF IsOperatorChar(s[i])
    THEN <<Token("op", <<s[i]>>)>> \o TokensFrom(s, i + 1)
    ELSE IF s[i] = "(" THEN <<Token("lpar", <<s[i]>>)>> \o TokensFrom(s, i + 1)
    ELSE IF s[i] = ")" THEN <<Token("rpar", <<s[i]>>)>> \o TokensFrom(s, i + 1)
    ELSE <<Token("other", <<s[i]>>)>> \o TokensFrom(s, i + 1)

Tokens(s) == TokensFrom(s, 1)

\* the value of a decimal integer literal
RECURSIVE DigitsToInt(_, _)
DigitsToInt(text, n) ==
    IF n = 0 THEN 0
    ELSE 10 * DigitsToInt(text, n - 1)
             + (CHOOSE k \in 0..9 : DigitSeq[k + 1] = text[n])

\* Python 3 refuses a decimal literal with a leading zero, other than zeros
IsDecimalLiteral(text) ==
    Len(text) = 1 \/ text[1] # "0" \/ \A i \in 1..Len(text) : text[i] = "0"

\* syntax the model does not interpret
HasUninterpretedSyntax(toks) ==
    \/ \E i \in 1..Len(toks) : toks[i].t = "other"
    \/ \E i \in 1..Len(toks) :
           /\ toks[i].t = "name"
           /\ NumericIndex(toks[i].text) = 0
           /\ toks[i].text \in Range(data_columns)
    \/ \E i \in 2..Len(toks) :
           /\ toks[i].t = "lpar"
           /\ toks[i - 1].t \in {"name", "num", "rpar"}
    \/ \E i \in 2..Len(toks) : toks[i].t = "rpar" /\ toks[i - 1].t = "lpar"

Parsed(val, pos) == [ok |-> TRUE, val |-> val, pos |-> pos]

Failed == [ok |-> FALSE, val |-> Scalar(NaN), pos |-> 0]

IsOp(toks, p, ops) ==
    p <= Len(toks) /\ toks[p].t = "op" /\ toks[p].text[1] \in ops

\* the operand of a unary sign
Signed(sign, operand) ==
    IF ~operand.ok \/ sign = "+" THEN operand
    ELSE Parsed(ApplyNegate(operand.val), operand.pos)

\* base ** exponent of two parsed operands
RaisedTo(base, exponent) ==
    IF ~exponent.ok THEN exponent
    ELSE Parsed(ApplyBinary("**", base.val, exponent.val), exponent.pos)

\* '(' expr ')' once the expression is parsed
Closed(toks, inner) ==
    IF inner.ok /\ inner.pos <= Len(toks) /\ toks[inner.pos].t = "rpar"
    THEN Parsed(inner.val, inner.pos + 1)
    ELSE Failed

RECURSIVE ParseExpr(_, _, _)
RECURSIVE ParseExprRest(_, _, _)
RECURSIVE ParseExprNext(_, _, _, _)
RECURSIVE ParseTerm(_, _, _)
RECURSIVE ParseTermRest(_, _, _)
RECURSIVE ParseTermNext(_, _, _, _)
RECURSIVE ParseFactor(_, _, _)
RECURSIVE ParsePower(_, _, _)
RECURSIVE ParsePowerRest(_, _, _)
RECURSIVE ParseAtom(_, _, _)

\* expr: term (('+' | '-') term)*
ParseExpr(toks, p, data) == ParseExprRest(toks, ParseTerm(toks, p, data), data)

ParseExprRest(toks, left, data) ==
    IF ~left.ok \/ ~IsOp(toks, left.pos, {"+", "-"}) THEN left
    ELSE ParseExprNext(toks, left, ParseTerm(toks, left.pos + 1, data), data)

ParseExprNext(toks, left, right, data) ==
    IF ~right.ok THEN right
    ELSE ParseExprRest(toks,
             Parsed(ApplyBinary(toks[left.pos].text[1], left.val, right.val),
                    right.pos),
             data)

\* term: factor (('*' | '/') factor)*
ParseTerm(toks, p, data) == ParseTermRest(toks, ParseFactor(toks, p, data), data)

ParseTermRest(toks, left, data) ==
    IF ~left.ok \/ ~IsOp(toks, left.pos, {"*", "/"}) THEN left
    ELSE ParseTermNext(toks, left, ParseFactor(toks, left.pos + 1, data), data)

ParseTermNext(toks, left, right, data) ==
    IF ~right.ok THEN right
    ELSE ParseTermRest(toks,
             Parsed(ApplyBinary(toks[left.pos].text[1], left.val, right.val),
                    right.pos),
             data)

\* factor: ('+' | '-') factor | power
ParseFactor(toks, p, data) ==
    IF IsOp(toks, p, {"+", "-"})
    THEN Signed(toks[p].text[1], ParseFactor(toks, p + 1, data))
    ELSE ParsePower(toks, p, data)

\* power: atom ['**' factor]
ParsePower(toks, p, data) == ParsePowerRest(toks, ParseAtom(toks, p, data), data)

ParsePowerRest(toks, base, data) ==
    IF ~base.ok \/ base.pos > Len(toks) \/ toks[base.pos].t # "pow" THEN base
    ELSE RaisedTo(base, ParseFactor(toks, base.pos + 1, data))

\* atom: NUMBER | NAME | '(' expr ')'; a name that is no column of the
\* frame is an UndefinedVariableError
ParseAtom(toks, p, data) ==
    IF p > Len(toks) THEN Failed
    ELSE IF toks[p].t = "num"
    THEN (IF IsDecimalLiteral(toks[p].text)
          THEN Parsed(Scalar(Number(DigitsToInt(toks[p].text, Len(toks[p].text)))),
                      p + 1)
          ELSE Failed)
    ELSE IF toks[p].t = "name"
    THEN (IF NumericIndex(toks[p].text) # 0
          THEN Parsed(Series(ColumnValues(data, toks[p].text)), p + 1)
          ELSE Failed)
    ELSE IF toks[p].t = "lpar"
    THEN Closed(toks, ParseExpr(toks, p + 1, data))
    ELSE Failed

Raised == [kind |-> "raise", v |-> NaN, vs |-> <<>>]

\* data.eval(formula): the possible outcomes, a value or an exception
data_eval(formula, data) ==
    LET toks == Tokens(formula)
        whole == ParseExpr(toks, 1, data)
    IN  IF HasUninterpretedSyntax(toks) THEN {Uninterpreted, Raised}
        ELSE IF whole.ok /\ whole.pos = Len(toks) + 1
        THEN (IF whole.val.kind = "other" THEN {Uninterpreted, Raised}
              ELSE {whole.val})
        ELSE {Raised}

(***************************************************************************)
(* evaluate_formula                                                        *)
(***************************************************************************)
RECURSIVE SkipSpaces(_, _)
SkipSpaces(s, i) ==
    IF i <= Len(s) /\ IsSpace(s[i]) THEN SkipSpaces(s, i + 1) ELSE i

RECURSIVE SkipSpacesBack(_, _)
SkipSpacesBack(s, i) ==
    IF i >= 1 /\ IsSpace(s[i]) THEN SkipSpacesBack(s, i - 1) ELSE i

\* str.strip()
StripNothing(s) == s

Strip(s) == SubSeq(s, SkipSpaces(s, 1), SkipSpacesBack(s, Len(s)))

\* re.sub(r'\s*([+\-*/])\s*', r'\1', formula)
RECURSIVE NormalizeFrom(_, _)
NormalizeFrom(s, i) ==
    IF i > Len(s) THEN <<>>
    ELSE LET j == SkipSpaces(s, i)
         IN  IF j <= Len(s) /\ IsOperatorChar(s[j])
             THEN <<s[j]>> \o NormalizeFrom(s, SkipSpaces(s, j + 1))
             ELSE <<s[i]>> \o NormalizeFrom(s, i + 1)

normalize_operators(formula) == NormalizeFrom(formula, 1)

\* Python's None as a result
None == [kind |-> "none", v |-> NaN, vs |-> <<>>]

\* the error of evaluate_formula: None, or one of its three messages
NoError == [msg |-> "", names |-> <<>>]

InvalidCharacters == [msg |-> "Invalid characters in formula", names |-> <<>>]

ColumnsNotFound(names) == [msg |-> "Columns not found: ", names |-> names]

FormulaError == [msg |-> "Formula error: ", names |-> <<>>]

\* what a call returns, with the steps it went through, the translated
\* text (app.py:324) and the text handed to data.eval (app.py:347), each
\* empty when the call returned before
Outcome(result, error, steps, translated, evaluated) ==
    [result |-> result, error |-> error, steps |-> steps,
     translated |-> translated, evaluated |-> evaluated]

\* evaluate_formula with the column check before the character check
evaluate_formula_columns_first(formula, data, short_to_technical_map) ==
    IF formula = <<>> \/ Strip(formula) = <<>>
    THEN {Outcome(None, NoError, <<>>, <<>>, <<>>)}
    ELSE
    LET original_formula == Strip(formula)
        translated == convert_short_names_to_technical(original_formula,
                                                       short_to_technical_map)
        missing == actual_missing(translated, data_columns)
    IN  IF missing # <<>>
        THEN {Outcome(None, ColumnsNotFound(missing),
                      <<"translate", "columns">>, translated, <<>>)}
        ELSE IF ~AllCharsAllowed(translated)
        THEN {Outcome(None, InvalidCharacters, <<"translate", "columns", "characters">>,
                      translated, <<>>)}
        ELSE {IF r.kind = "raise"
              THEN Outcome(None, FormulaError,
                           <<"translate", "columns", "characters", "eval">>,
                           translated, normalize_operators(translated))
              ELSE Outcome(r, NoError,
                           <<"translate", "columns", "characters", "eval">>,
                           translated, normalize_operators(translated)) :
                  r \in data_eval(normalize_operators(translated), data)}

\* evaluate_formula(formula, data, short_to_technical_map): the possible
\* (result, error) pairs
evaluate_formula(formula, data, short_to_technical_map) ==
    IF formula = <<>> \/ Strip(formula) = <<>>
    THEN {Outcome(None, NoError, <<>>, <<>>, <<>>)}
    ELSE
    LET original_formula == Strip(formula)
        translated == convert_short_names_to_technical(original_formula,
                                                       short_to_technical_map)
        missing == actual_missing(translated, data_columns)
    IN  IF ~AllCharsAllowed(translated)
        THEN {Outcome(None, InvalidCharacters, <<"translate", "characters">>,
                      translated, <<>>)}
        ELSE IF missing # <<>>
        THEN {Outcome(None, ColumnsNotFound(missing),
                      <<"translate", "characters", "columns">>, translated, <<>>)}
        ELSE {IF r.kind = "raise"
              THEN Outcome(None, FormulaError,
                           <<"translate", "characters", "columns", "eval">>,
                           translated, normalize_operators(translated))
              ELSE Outcome(r, NoError,
                           <<"translate", "characters", "columns", "eval">>,
                           translated, normalize_operators(translated)) :
                  r \in data_eval(normalize_operators(translated), data)}

(***************************************************************************)
(* The positioning table (cot_data), read only: the rows of each commodity *)
(* in report-date order.  A row holds its report date and the values of    *)
(* the numeric columns, in the order of numeric_columns.                   *)
(***************************************************************************)
Row(date, oi, mm_long, mm_short, pct_long, pct_short) ==
    [date |-> date, num |-> <<oi, mm_long, mm_short, pct_long, pct_short>>]

\* SELECT * FROM cot_data WHERE Commodity_Name = ? ORDER BY As_of_Date_In_Form_YYMMDD
load_commodity_data(commodity_name) ==
    IF commodity_name = "GOLD"
    THEN << Row(1, Number(2), Number(1), Number(0), Number(50), Number(0)),
            Row(3, Number(0), Number(1), Number(0), NaN, NaN),
            Row(4, Number(0), Number(1), Number(1), NaN, NaN) >>
    ELSE IF commodity_name = "CORN"
    THEN << Row(2, NaN, Number(1), Number(0), NaN, NaN),
            Row(3, Number(1), NaN, Number(0), NaN, Number(0)) >>
    ELSE << Row(1, Number(1), Number(1), Number(0), Number(100), Number(0)) >>

\* filtered_commodities_df['Commodity_Name'].unique().tolist(), ordered by name
commodity_list == <<"CORN", "GOLD", "MILK", "OATS">>

\* data['As_of_Date_In_Form_YYMMDD'].min() and .max() of a frame with rows
MinDate(data) == data[1].date

MaxDate(data) == data[Len(data)].date

RECURSIVE SelectRows(_, _, _)
SelectRows(data, lo, hi) ==
    IF data = <<>> THEN <<>>
    ELSE IF Head(data).date >= lo /\ Head(data).date <= hi
         THEN <<Head(data)>> \o SelectRows(Tail(data), lo, hi)
         ELSE SelectRows(Tail(data), lo, hi)

\* app.py:227-233: the rows inside a complete (start, end) range, else all rows
FilterByDateRange(data, date_range) ==
    IF Len(date_range) = 2
    THEN SelectRows(data, date_range[1], date_range[2])
    ELSE data

\* d[key] of a dict kept as its items() sequence
DictGet(d, key) == d[CHOOSE i \in 1..Len(d) : d[i][1] = key][2]

\* [left_axis_options[short] for short in left_axis_selected_short]
axis_columns(selected_short) ==
    [i \in 1..Len(selected_short) |-> DictGet(short_to_technical, selected_short[i])]

(***************************************************************************)
(* One run of the script (app.py:210-465) on the widget values             *)
(***************************************************************************)
FormulaPrefix == <<"F", "o", "r", "m", "u", "l", "a", ":", " ">>

NoFigure == <<>>

\* go.Scatter(x=date_values, y=..., name=..., yaxis=...)
Trace(name, yaxis, x, y) == [name |-> name, yaxis |-> yaxis, x |-> x, y |-> y]

\* date_input(value=(min_date, max_date)): the default range of a commodity
FullRange(commodity) ==
    <<MinDate(load_commodity_data(commodity)), MaxDate(load_commodity_data(commodity))>>

\* the ranges picked in the session, of those the date_input can return
\* between min_value and max_value: the whole range, a start without an
\* end, the first day, the second day, the range from the second day on
DateRanges(commodity) ==
    LET lo == FullRange(commodity)[1]
        hi == FullRange(commodity)[2]
    IN  { r \in {<<lo, hi>>, <<lo>>, <<lo, lo>>, <<lo + 1, lo + 1>>, <<lo + 1, hi>>} :
              \A i \in 1..Len(r) : lo <= r[i] /\ r[i] <= hi }

\* a name that is no column of the table
NotARealColumn ==
    <<"N", "o", "t", "A", "R", "e", "a", "l", "C", "o", "l", "u", "m", "n">>

\* the formulas typed into the text inputs of the session
LeftFormulas ==
    { <<>>, <<" ">>, Short_MM_Long, Short_MM_Long \o <<";">>, <<"1", "+", "2">> }

RightFormulas ==
    { <<>>,
      Short_Pct_OI_MM_Long \o <<" ", "-", " ">> \o Short_Pct_OI_MM_Short,
      Short_Open_Interest \o <<" ", "/", " ">> \o Short_MM_Short,
      NotARealColumn \o <<" ", "+", " ", "1">> }

EvaluateAxisKeepingError(formula, data) ==
    IF formula # <<>>
    THEN {[result |-> IF o.error # NoError THEN Scalar(NaN) ELSE o.result,
           error |-> o.error, called |-> TRUE, returned |-> o] :
              o \in evaluate_formula(formula, data, short_to_technical)}
    ELSE {[result |-> None, error |-> NoError, called |-> FALSE,
           returned |-> Outcome(None, NoError, <<>>, <<>>, <<>>)]}

\* the call made for one axis (app.py:359-371): evaluate_formula is called
\* when the text is not the empty string
EvaluateAxis(formula, data) ==
    IF formula # <<>>
    THEN {[result |-> IF o.error # NoError THEN None ELSE o.result,
           error |-> o.error, called |-> TRUE, returned |-> o] :
              o \in evaluate_formula(formula, data, short_to_technical)}
    ELSE {[result |-> None, error |-> NoError, called |-> FALSE,
           returned |-> Outcome(None, NoError, <<>>, <<>>, <<>>)]}

has_axis_columns(columns, formula_result) == columns # <<>>

has_axis_data(columns, formula_result) == columns # <<>> \/ formula_result # None

AxisTracesColumnsFirst(formula, formula_result, columns, data, yaxis) ==
    LET date_values == [i \in 1..Len(data) |-> data[i].date]
    IN  [i \in 1..Len(columns) |->
               Trace(get_short_name(columns[i]), yaxis, date_values,
                     ColumnValues(data, columns[i]))]
        \o (IF formula_result # None
            THEN <<Trace(FormulaPrefix \o formula, yaxis, date_values, formula_result.vs)>>
            ELSE <<>>)

\* the traces of one axis: the formula's first, then the selected columns'
AxisTraces(formula, formula_result, columns, data, yaxis) ==
    LET date_values == [i \in 1..Len(data) |-> data[i].date]
    IN  (IF formula_result # None
         THEN <<Trace(FormulaPrefix \o formula, yaxis, date_values, formula_result.vs)>>
         ELSE <<>>)
        \o [i \in 1..Len(columns) |->
               Trace(get_short_name(columns[i]), yaxis, date_values,
                     ColumnValues(data, columns[i]))]

\* plotly takes an array as y: a result that is no series makes go.Scatter
\* raise ValueError; a result of uninterpreted syntax may be either
PlotRaises(formula_result) ==
    CASE formula_result.kind = "scalar" -> {TRUE}
      [] formula_result.kind = "other" -> {TRUE, FALSE}
      [] OTHER -> {FALSE}

Shown(kind, axis, error) == [kind |-> kind, axis |-> axis, error |-> error]

NothingToRender == Shown("info", "", NoError)

\* what a run leaves: how it ended ("shown", or the place where it raised),
\* the evaluation of each axis, the figure and the messages shown
Display(status, left, right, fig, shown) ==
    [status |-> status, left |-> left, right |-> right, fig |-> fig, shown |-> shown]

NotEvaluated ==
    [result |-> None, error |-> NoError, called |-> FALSE,
     returned |-> Outcome(None, NoError, <<>>, <<>>, <<>>)]

RunScript(commodity, range, l_formula, r_formula, l_selected, r_selected) ==
    LET data == load_commodity_data(commodity)
        filtered_data == FilterByDateRange(data, range)
        left_axis_columns == axis_columns(l_selected)
        right_axis_columns == axis_columns(r_selected)
    IN  IF filtered_data = <<>>
        \* app.py:294: min() of no rows is NaT, and NaT.strftime raises
        THEN {Display("caption_raised", NotEvaluated, NotEvaluated, NoFigure, <<>>)}
        ELSE
        UNION {
          LET has_left_data == has_axis_data(left_axis_columns, left.result)
              has_right_data == has_axis_data(right_axis_columns, right.result)
              fig == AxisTraces(l_formula, left.result, left_axis_columns,
                                filtered_data, "y")
                     \o AxisTraces(r_formula, right.result, right_axis_columns,
                                   filtered_data, "y2")
              errors == (IF left.error # NoError
                         THEN <<Shown("error", "Left", left.error)>> ELSE <<>>)
                        \o (IF right.error # NoError
                            THEN <<Shown("error", "Right", right.error)>> ELSE <<>>)
          IN  IF has_left_data \/ has_right_data
              THEN {IF raises THEN Display("figure_raised", left, right, NoFigure, <<>>)
                    ELSE Display("shown", left, right, fig, errors) :
                        raises \in {a \/ b : a \in PlotRaises(left.result),
                                             b \in PlotRaises(right.result)}}
              ELSE {Display("shown", left, right, NoFigure, <<NothingToRender>>)} :
                  left \in EvaluateAxis(l_formula, filtered_data),
                  right \in EvaluateAxis(r_formula, filtered_data) }

(***************************************************************************)
(* The price panel (app.py:467-586), its mapping table, the price store    *)
(* (the table commodity_prices) and the upstream price service.            *)
(***************************************************************************)
\* the table commodity_price_mapping, read only: a ticker for GOLD and
\* CORN, a row without a ticker for OATS, no row for MILK
commodity_price_mapping ==
    << [commodity_name |-> "CORN", ticker_symbol |-> "ZC=F"],
       [commodity_name |-> "GOLD", ticker_symbol |-> "GC=F"],
       [commodity_name |-> "OATS", ticker_symbol |-> ""] >>

NoMapping == [commodity_name |-> "", ticker_symbol |-> ""]

\* SELECT * FROM commodity_price_mapping WHERE commodity_name = ?
get_price_mapping(commodity_name) ==
    IF \E i \in 1..Len(commodity_price_mapping) :
           commodity_price_mapping[i].commodity_name = commodity_name
    THEN commodity_price_mapping[
             CHOOSE i \in 1..Len(commodity_price_mapping) :
                 commodity_price_mapping[i].commodity_name = commodity_name]
    ELSE NoMapping

\* a row of a price frame, and a row of the table commodity_prices
PriceRow(date, close) == [DATE |-> date, CLOSE |-> close]

StoredRow(commodity_name, row) ==
    [Commodity_Name |-> commodity_name, DATE |-> row.DATE, CLOSE |-> row.CLOSE]

\* the daily prices the upstream service holds for a ticker
market_prices(ticker) ==
    IF ticker = "GC=F"
    THEN << PriceRow(2, 10), PriceRow(3, 12) >>
    ELSE <<>>

RECURSIVE SelectPrices(_, _, _)
SelectPrices(rows, lo, hi) ==
    IF rows = <<>> THEN <<>>
    ELSE IF Head(rows).DATE >= lo /\ Head(rows).DATE <= hi
         THEN <<Head(rows)>> \o SelectPrices(Tail(rows), lo, hi)
         ELSE SelectPrices(Tail(rows), lo, hi)

\* stock.history(start, end): the rows from start to the day before end; an
\* empty frame when there is none or when the request fails
fetch_historical_prices(ticker, start_date, end_date) ==
    { SelectPrices(market_prices(ticker), start_date, end_date - 1), <<>> }

\* df.to_sql('commodity_prices', if_exists='replace') of each frame with rows
save_prices_replacing_table(commodity_name, df, store) ==
    IF df = <<>> THEN store
    ELSE [i \in 1..Len(df) |-> StoredRow(commodity_name, df[i])]

\* df.to_sql('commodity_prices', if_exists='append') of each frame with rows
save_prices_to_database(commodity_name, df, store) ==
    IF df = <<>> THEN store
    ELSE store \o [i \in 1..Len(df) |-> StoredRow(commodity_name, df[i])]

save_prices_raising_after_a_row(commodity_name, df, store) ==
    IF df = <<>> THEN store
    ELSE Append(store, StoredRow(commodity_name, df[1]))

\* the same call when the insert of to_sql raises (the table is locked by
\* another writer, or the frame has a column the table lacks): the rows of
\* a frame are inserted in one transaction, rolled back when it raises
save_prices_raising(commodity_name, df, store) == store

\* ORDER BY DATE: a row inserted into rows kept in date order
RECURSIVE InsertByDate(_, _)
InsertByDate(sorted, row) ==
    IF sorted = <<>> THEN <<row>>
    ELSE IF Head(sorted).DATE <= row.DATE
         THEN <<Head(sorted)>> \o InsertByDate(Tail(sorted), row)
         ELSE <<row>> \o sorted

RECURSIVE OrderByDate(_, _)
OrderByDate(rows, n) ==
    IF n = 0 THEN <<>> ELSE InsertByDate(OrderByDate(rows, n - 1), rows[n])

RECURSIVE RowsOf(_, _)
RowsOf(store, commodity_name) ==
    IF store = <<>> THEN <<>>
    ELSE IF Head(store).Commodity_Name = commodity_name
         THEN <<PriceRow(Head(store).DATE, Head(store).CLOSE)>>
                  \o RowsOf(Tail(store), commodity_name)
         ELSE RowsOf(Tail(store), commodity_name)

\* SELECT * FROM commodity_prices WHERE Commodity_Name = ? ORDER BY DATE
get_commodity_prices_from_db(commodity_name, store) ==
    LET rows == RowsOf(store, commodity_name)
    IN  OrderByDate(rows, Len(rows))

\* a call the panel makes, kept in the order of the calls
Call(fn, args) == [fn |-> fn, args |-> args]

\* st.caption(f"... Ticker: {ticker} ...")
TickerCaption(ticker) == Shown("caption", "Price", [msg |-> ticker, names |-> <<>>])

\* st.info("Price data available but no data for selected date range")
NoDataForRange ==
    Shown("info", "Price",
          [msg |-> "Price data available but no data for selected date range",
           names |-> <<>>])

NoPriceDataAsNoMapping ==
    Shown("info", "Price",
          [msg |-> "No price mapping found for this commodity", names |-> <<>>])

\* st.info("No price data available. The ticker may not be valid or ...")
NoPriceData ==
    Shown("info", "Price", [msg |-> "No price data available", names |-> <<>>])

\* st.info("No price mapping found for this commodity. ...")
NoPriceMapping ==
    Shown("info", "Price",
          [msg |-> "No price mapping found for this commodity", names |-> <<>>])

NoChart == [rows |-> <<>>, range |-> <<>>]

NoStats == <<>>

\* the four st.metric of the panel: latest, min, max, change and its percentage
PriceStats(rows) ==
    LET closes == [i \in 1..Len(rows) |-> rows[i].CLOSE]
        first == closes[1]
        last == closes[Len(closes)]
    IN  << [latest |-> last,
            min |-> CHOOSE c \in Range(closes) : \A d \in Range(closes) : c <= d,
            max |-> CHOOSE c \in Range(closes) : \A d \in Range(closes) : c >= d,
            change |-> last - first,
            change_pct |-> Mul(Div(Number(last - first), Number(first)), Number(100))] >>

\* what a run of the panel leaves: the calls it made, its messages, the
\* price chart (rows drawn and the range of its x-axis) and the statistics
Panel(calls, messages, chart, stats) ==
    [reached |-> TRUE, calls |-> calls, messages |-> messages,
     chart |-> chart, stats |-> stats]

PanelNotReached ==
    [reached |-> FALSE, calls |-> <<>>, messages |-> <<>>,
     chart |-> NoChart, stats |-> NoStats]

ShowPricesUnlessNone(price_data, range, data, calls, messages) ==
    LET price_data_filtered ==
            IF Len(range) = 2
            THEN SelectPrices(price_data, range[1], range[2])
            ELSE price_data
    IN  IF price_data_filtered # <<>>
        THEN Panel(calls, messages,
                   [rows |-> price_data_filtered,
                    range |-> <<MinDate(data), MaxDate(data)>>],
                   PriceStats(price_data_filtered))
        ELSE Panel(calls, Append(messages, NoPriceData), NoChart, NoStats)

\* app.py:521-584: the price frame windowed to the date range and shown
ShowPrices(price_data, range, data, calls, messages) ==
    IF price_data # <<>>
    THEN LET price_data_filtered ==
                 IF Len(range) = 2
                 THEN SelectPrices(price_data, range[1], range[2])
                 ELSE price_data
         IN  IF price_data_filtered # <<>>
             THEN Panel(calls, messages,
                        [rows |-> price_data_filtered,
                         range |-> <<MinDate(data), MaxDate(data)>>],
                        PriceStats(price_data_filtered))
             ELSE Panel(calls, Append(messages, NoDataForRange), NoChart, NoStats)
    ELSE Panel(calls, Append(messages, NoPriceData), NoChart, NoStats)

\* app.py:487-519, 521-584 when the store had no row of the commodity: one
\* request for the ticker between the first and last report date, saved
\* when it brought rows, and the panel of what it brought
FetchTwiceOnMiss(commodity, ticker, range, data, store, calls) ==
    LET price_start == MinDate(data)
        price_end == MaxDate(data)
        fetch_call == Call("fetch_historical_prices",
                           <<ticker, price_start, price_end>>)
        save_call == Call("save_prices_to_database", <<commodity>>)
    IN  { IF fetched # <<>>
          THEN [panel |-> ShowPrices(fetched, range, data,
                              calls \o <<fetch_call, save_call>>,
                              <<TickerCaption(ticker)>>),
                store |-> save_prices_to_database(commodity, fetched, store)]
          ELSE [panel |-> ShowPrices(again, range, data,
                              calls \o <<fetch_call, fetch_call>>
                                    \o (IF again # <<>> THEN <<save_call>> ELSE <<>>),
                              <<TickerCaption(ticker)>>),
                store |-> IF again # <<>>
                          THEN save_prices_to_database(commodity, again, store)
                          ELSE store] :
              fetched \in fetch_historical_prices(ticker, price_start, price_end),
              again \in fetch_historical_prices(ticker, price_start, price_end) }

FetchWholeHistoryOnMiss(commodity, ticker, range, data, store, calls) ==
    LET fetch_call == Call("fetch_historical_prices",
                           <<ticker, MinDate(data), MaxDate(data)>>)
        save_call == Call("save_prices_to_database", <<commodity>>)
    IN  { IF fetched # <<>>
          THEN [panel |-> ShowPrices(fetched, range, data,
                              calls \o <<fetch_call, save_call>>,
                              <<TickerCaption(ticker)>>),
                store |-> save_prices_to_database(commodity, fetched, store)]
          ELSE [panel |-> ShowPrices(fetched, range, data,
                              Append(calls, fetch_call),
                              <<TickerCaption(ticker)>>),
                store |-> store] :
              fetched \in {market_prices(ticker), <<>>} }

FetchOnMiss(commodity, ticker, range, data, store, calls) ==
    LET price_start == MinDate(data)
        price_end == MaxDate(data)
        fetch_call == Call("fetch_historical_prices",
                           <<ticker, price_start, price_end>>)
        save_call == Call("save_prices_to_database", <<commodity>>)
    IN  { IF fetched # <<>>
          THEN [panel |-> ShowPrices(fetched, range, data,
                              calls \o <<fetch_call, save_call>>,
                              <<TickerCaption(ticker)>>),
                store |-> save_prices_to_database(commodity, fetched, store)]
          ELSE [panel |-> ShowPrices(fetched, range, data,
                              Append(calls, fetch_call),
                              <<TickerCaption(ticker)>>),
                store |-> store] :
              fetched \in fetch_historical_prices(ticker, price_start, price_end) }

PricePanelOfAnyMapping(commodity, range, data, store) ==
    LET price_mapping == get_price_mapping(commodity)
        mapping_call == Call("get_price_mapping", <<commodity>>)
    IN  IF price_mapping # NoMapping
        THEN LET ticker == price_mapping.ticker_symbol
                 price_data == get_commodity_prices_from_db(commodity, store)
                 calls == <<mapping_call,
                            Call("get_commodity_prices_from_db", <<commodity>>)>>
             IN  IF price_data = <<>>
                 THEN FetchOnMiss(commodity, ticker, range, data, store, calls)
                 ELSE { [panel |-> ShowPrices(price_data, range, data, calls,
                                              <<TickerCaption(ticker)>>),
                         store |-> store] }
        ELSE { [panel |-> Panel(<<mapping_call>>, <<NoPriceMapping>>, NoChart, NoStats),
                store |-> store] }

PricePanelFetchingAlways(commodity, range, data, store) ==
    LET price_mapping == get_price_mapping(commodity)
        mapping_call == Call("get_price_mapping", <<commodity>>)
    IN  IF price_mapping # NoMapping /\ price_mapping.ticker_symbol # ""
        THEN FetchOnMiss(commodity, price_mapping.ticker_symbol, range, data, store,
                         <<mapping_call,
                           Call("get_commodity_prices_from_db", <<commodity>>)>>)
        ELSE { [panel |-> Panel(<<mapping_call>>, <<NoPriceMapping>>, NoChart, NoStats),
                store |-> store] }

\* app.py:471-586 on the filtered rows and the price store: the panels the
\* run can leave, each with the store it leaves
PricePanel(commodity, range, data, store) ==
    LET price_mapping == get_price_mapping(commodity)
        mapping_call == Call("get_price_mapping", <<commodity>>)
    IN  IF price_mapping # NoMapping /\ price_mapping.ticker_symbol # ""
        THEN LET ticker == price_mapping.ticker_symbol
                 price_data == get_commodity_prices_from_db(commodity, store)
                 calls == <<mapping_call,
                            Call("get_commodity_prices_from_db", <<commodity>>)>>
             IN  IF price_data = <<>>
                 THEN FetchOnMiss(commodity, ticker, range, data, store, calls)
                 ELSE { [panel |-> ShowPrices(price_data, range, data, calls,
                                              <<TickerCaption(ticker)>>),
                         store |-> store] }
        ELSE { [panel |-> Panel(<<mapping_call>>, <<NoPriceMapping>>, NoChart, NoStats),
                store |-> store] }

(***************************************************************************)
(* The backend shared by the sessions: the rows of the mapping table, the  *)
(* value st.cache_data keeps, and the passes of sessions running at once.  *)
(***************************************************************************)
\* a row of the table commodity_price_mapping (commodity_price_mapping.py:
\* 23-34), without its timestamps
MappingRow(commodity_name, ticker_symbol, ticker_type, auto_mapped, verified, notes) ==
    [commodity_name |-> commodity_name, ticker_symbol |-> ticker_symbol,
     ticker_type |-> ticker_type, auto_mapped |-> auto_mapped,
     verified |-> verified, notes |-> notes]

\* SQL NULL
Null == "NULL"

\* the tickers that hold '=F'
FuturesTickers == {"ZC=F", "GC=F", "ZO=F", "DC=F"}

\* 'futures' if '=F' in ticker else 'etf'
TickerType(ticker) == IF ticker \in FuturesTickers THEN "futures" ELSE "etf"

\* the rows behind commodity_price_mapping: mappings made by hand
MappingAtStart ==
    [i \in 1..Len(commodity_price_mapping) |->
        MappingRow(commodity_price_mapping[i].commodity_name,
                   commodity_price_mapping[i].ticker_symbol,
                   "futures", 0, 1, "by hand")]

\* st.cache_data before the first call of a function
NotCached == [cached |-> FALSE, value |-> <<>>]

\* COMMODITY_TICKER_MAPPING, futures preferred (commodity_ticker_mapping.py)
get_ticker_for_commodity(commodity_name) ==
    IF commodity_name = "CORN" THEN "ZC=F"
    ELSE IF commodity_name = "GOLD" THEN "GC=F"
    ELSE IF commodity_name = "OATS" THEN "ZO=F"
    ELSE IF commodity_name = "MILK" THEN "DC=F"
    ELSE Null

HasRow(table, commodity_name) ==
    \E i \in 1..Len(table) : table[i].commodity_name = commodity_name

\* DELETE FROM commodity_price_mapping WHERE commodity_name = ?
DeleteRow(table, commodity_name) ==
    SelectSeq(table, LAMBDA r : r.commodity_name # commodity_name)

\* INSERT OR REPLACE: the row of the same primary key goes, the new one comes
InsertOrReplace(table, row) == Append(DeleteRow(table, row.commodity_name), row)

\* INSERT OR IGNORE: nothing when the primary key is taken
InsertOrIgnore(table, row) ==
    IF HasRow(table, row.commodity_name) THEN table ELSE Append(table, row)

\* the mutant of auto_map_commodities that replaces whatever the flag says
RECURSIVE AutoMapReplacingUpTo(_, _, _)
AutoMapReplacingUpTo(table, overwrite_existing, n) ==
    IF n = 0 THEN table
    ELSE LET before == AutoMapReplacingUpTo(table, overwrite_existing, n - 1)
             commodity == commodity_list[n]
             ticker == get_ticker_for_commodity(commodity)
             mapping == MappingRow(commodity, ticker, TickerType(ticker), 1, 0, Null)
         IN  IF ticker = Null THEN before
             ELSE InsertOrReplace(before, mapping)

\* auto_map_commodities over the first n commodities of cot_data
RECURSIVE AutoMapUpTo(_, _, _)
AutoMapUpTo(table, overwrite_existing, n) ==
    IF n = 0 THEN table
    ELSE LET before == AutoMapUpTo(table, overwrite_existing, n - 1)
             commodity == commodity_list[n]
             ticker == get_ticker_for_commodity(commodity)
             mapping == MappingRow(commodity, ticker, TickerType(ticker), 1, 0, Null)
         IN  IF ticker = Null THEN before
             ELSE IF overwrite_existing THEN InsertOrReplace(before, mapping)
             ELSE InsertOrIgnore(before, mapping)

auto_map_commodities(table, overwrite_existing) ==
    AutoMapUpTo(table, overwrite_existing, Len(commodity_list))

\* update_price_mapping: a ticker of None deletes the row; auto_mapped takes
\* the default of its column
update_price_mapping(table, commodity_name, ticker_symbol, ticker_type, verified, notes) ==
    IF ticker_symbol = Null
    THEN DeleteRow(table, commodity_name)
    ELSE InsertOrReplace(table,
             MappingRow(commodity_name, ticker_symbol, ticker_type, 0,
                        IF verified THEN 1 ELSE 0, notes))

\* set(mappings_df['commodity_name'].unique())
commodities_with_prices(table) ==
    { table[i].commodity_name : i \in 1..Len(table) }

\* the frame of get_commodities_with_price_info computed on the table now:
\* the commodities of cot_data with their column Has_Price_Data
get_commodities_with_price_info(table) ==
    [i \in 1..Len(commodity_list) |->
        [Commodity_Name |-> commodity_list[i],
         Has_Price_Data |-> commodity_list[i] \in commodities_with_prices(table)]]

\* @cache_data on a function without arguments: the value of the first call
cache_data(memoized, table) ==
    IF memoized.cached THEN memoized
    ELSE [cached |-> TRUE, value |-> get_commodities_with_price_info(table)]

\* no other session is running
NoSessions == <<>>

(***************************************************************************)
(* State: the widget values of the session and what the last run of the    *)
(* script computed and displayed.                                          *)
(***************************************************************************)
VARIABLES
    selected_commodity,         \* the commodity selectbox
    date_range,                 \* the date_input: <<start, end>>, or <<start>>
                                \* while the range is being picked
    left_formula,               \* the text_input of the left axis
    right_formula,              \* the text_input of the right axis
    left_axis_selected_short,   \* the multiselect of the left axis
    right_axis_selected_short,  \* the multiselect of the right axis
    display,                    \* the last run: formula results and errors,
                                \* the figure, the messages shown
    price_panel,                \* the last run: what its price panel did
    price_store,                \* the rows of the table commodity_prices
    mapping_table,              \* the rows of the table commodity_price_mapping
    memo,                       \* what st.cache_data holds for
                                \* get_commodities_with_price_info
    sessions                    \* the passes of the sessions running at once

widgets ==
    <<selected_commodity, date_range, left_formula, right_formula,
      left_axis_selected_short, right_axis_selected_short>>

backend == <<mapping_table, memo, sessions>>

vars == <<widgets, display, price_panel, price_store, backend>>

\* the mapping table as the panel reads it, nothing memoized, one session
BackendAtStart ==
    /\ mapping_table = MappingAtStart
    /\ memo = NotCached
    /\ sessions = NoSessions

\* the rows the last run worked on
filtered_data ==
    FilterByDateRange(load_commodity_data(selected_commodity), date_range)

(***************************************************************************)
(* The session.  Every change of a widget reruns the script.               *)
(***************************************************************************)
\* the options picked and unpicked in the multiselects of the session
LeftOptions == {Short_Open_Interest}

RightOptions == {Short_Pct_OI_MM_Long, Short_Pct_OI_MM_Short}

\* a multiselect: a picked option is appended, an unpicked one removed
Toggle(selected, option) ==
    IF option \in Range(selected)
    THEN FilterNotIn(selected, {option})
    ELSE Append(selected, option)

\* the defaults of the multiselects (app.py:261, 279-280)
DefaultLeftSelection ==
    IF Open_Interest_All \in Range(numeric_columns)
    THEN <<get_short_name(Open_Interest_All)>>
    ELSE <<>>

DefaultRightSelection ==
    IF {Pct_of_OI_M_Money_Long_All, Pct_of_OI_M_Money_Short_All}
           \subseteq Range(numeric_columns)
    THEN <<get_short_name(Pct_of_OI_M_Money_Long_All),
           get_short_name(Pct_of_OI_M_Money_Short_All)>>
    ELSE <<>>

\* the script run on the new widget values: the price panel is reached
\* when nothing raised before it
Rerun ==
    /\ display' \in RunScript(selected_commodity', date_range', left_formula',
                              right_formula', left_axis_selected_short',
                              right_axis_selected_short')
    /\ IF display'.status = "shown"
       THEN \E p \in PricePanel(selected_commodity', date_range', filtered_data',
                                price_store) :
                /\ price_panel' = p.panel
                /\ price_store' = p.store
       ELSE /\ price_panel' = PanelNotReached
            /\ price_store' = price_store
    /\ UNCHANGED backend

Init ==
    /\ selected_commodity = commodity_list[1]
    /\ date_range = FullRange(commodity_list[1])
    /\ left_formula = <<>>
    /\ right_formula = <<>>
    /\ left_axis_selected_short = DefaultLeftSelection
    /\ right_axis_selected_short = DefaultRightSelection
    /\ display \in RunScript(selected_commodity, date_range, left_formula,
                             right_formula, left_axis_selected_short,
                             right_axis_selected_short)
    /\ \E p \in PricePanel(selected_commodity, date_range, filtered_data, <<>>) :
           /\ price_panel = p.panel
           /\ price_store = p.store
    /\ BackendAtStart

\* the commodities picked in the session
SessionCommodities == {"CORN", "GOLD"}

\* another commodity: its date_input is a new widget, with its default range
SelectCommodity ==
    \E c \in SessionCommodities \ {selected_commodity} :
        /\ selected_commodity' = c
        /\ date_range' = FullRange(c)
        /\ UNCHANGED <<left_formula, right_formula, left_axis_selected_short,
                       right_axis_selected_short>>
        /\ Rerun

ChangeDateRange ==
    \E r \in DateRanges(selected_commodity) \ {date_range} :
        /\ date_range' = r
        /\ UNCHANGED <<selected_commodity, left_formula, right_formula,
                       left_axis_selected_short, right_axis_selected_short>>
        /\ Rerun

EditLeftFormula ==
    \E f \in LeftFormulas \ {left_formula} :
        /\ left_formula' = f
        /\ UNCHANGED <<selected_commodity, date_range, right_formula,
                       left_axis_selected_short, right_axis_selected_short>>
        /\ Rerun

EditRightFormula ==
    \E f \in RightFormulas \ {right_formula} :
        /\ right_formula' = f
        /\ UNCHANGED <<selected_commodity, date_range, left_formula,
                       left_axis_selected_short, right_axis_selected_short>>
        /\ Rerun

ToggleLeftColumn ==
    \E option \in LeftOptions :
        /\ left_axis_selected_short' = Toggle(left_axis_selected_short, option)
        /\ UNCHANGED <<selected_commodity, date_range, left_formula, right_formula,
                       right_axis_selected_short>>
        /\ Rerun

ToggleRightColumn ==
    \E option \in RightOptions :
        /\ right_axis_selected_short' = Toggle(right_axis_selected_short, option)
        /\ UNCHANGED <<selected_commodity, date_range, left_formula, right_formula,
                       left_axis_selected_short>>
        /\ Rerun

Next ==
    \/ SelectCommodity
    \/ ChangeDateRange
    \/ EditLeftFormula
    \/ EditRightFormula
    \/ ToggleLeftColumn
    \/ ToggleRightColumn

Spec == Init /\ [][Next]_vars

(***************************************************************************)
(* One call of evaluate_formula, on one text of a family of formula texts  *)
(* and one filtered table.                                                 *)
(***************************************************************************)
\* the labels of the numeric columns
NumericLabels == {get_short_name(numeric_columns[i]) : i \in 1..Len(numeric_columns)}

\* the labels made of words only
WordLabels == {Short_MM_Long, Short_MM_Short, Short_Open_Interest}

\* what a formula is written with: labels, a label in lower case, an
\* internal id, an unknown name, a function name, numbers
Operands ==
    NumericLabels
    \cup { [i \in 1..Len(Short_MM_Long) |-> Lower(Short_MM_Long[i])],
           Open_Interest_All, NotARealColumn, <<"m", "i", "n">>, <<"1">>, <<"0">> }

Prefixes == { <<>>, <<" ">>, <<"(">>, <<"-">>, <<"2", "*">> }

Suffixes == { <<>>, <<" ">>, <<")">>, <<";">>, <<"[", "0", "]">>, <<"s">>, <<"_", "x">> }

Spacings == { <<>>, <<" ">> }

Operators == { <<"+">>, <<"-">>, <<"*">>, <<"/">> }

SingleFormulas(operands) ==
    { p \o a \o s : p \in Prefixes, a \in operands, s \in Suffixes }

BinaryFormulas(operands) ==
    { a \o sp \o op \o sp \o b :
          a \in operands, b \in operands, sp \in Spacings, op \in Operators }

\* (a - b) / c
Quotient(a, b, c) ==
    <<"(">> \o a \o <<" ", "-", " ">> \o b \o <<")", " ", "/", " ">> \o c

QuotientFormulas(operands) ==
    { Quotient(a, b, c) : a \in operands, b \in operands, c \in operands }

DropTableFormula ==
    <<"O", "p", "e", "n", "_", "I", "n", "t", "e", "r", "e", "s", "t", "_", "A", "l", "l", ";", " ", "D", "R", "O", "P", " ", "T", "A", "B", "L", "E", " ", "x">>

UnderscoredFormula ==
    <<"(", "M", "M", "_", "L", "o", "n", "g", " ", "-", " ", "M", "M", "_", "S", "h", "o", "r", "t", ")", " ", "/", " ", "O", "p", "e", "n", "_", "I", "n", "t", "e", "r", "e", "s", "t", "_", "A", "l", "l">>

\* two operators written apart: a * * b, a / / b
DoubledOperatorFormulas(operands) ==
    { a \o <<" ">> \o op \o <<" ">> \o op \o <<" ">> \o b :
          a \in operands, b \in operands, op \in { <<"*">>, <<"/">> } }

FormulaPool ==
    SingleFormulas(Operands) \cup BinaryFormulas(Operands)
    \cup QuotientFormulas(WordLabels) \cup DoubledOperatorFormulas(WordLabels)
    \cup { <<>>, <<" ">>, <<" ", "\t">>, DropTableFormula, UnderscoredFormula }

\* the tables a call can be made on: the script raises before the call when
\* the filter leaves no row
InitFormula ==
    /\ selected_commodity \in Range(commodity_list)
    /\ date_range \in DateRanges(selected_commodity)
    /\ filtered_data # <<>>
    /\ left_formula \in FormulaPool
    /\ right_formula = <<>>
    /\ left_axis_selected_short = DefaultLeftSelection
    /\ right_axis_selected_short = DefaultRightSelection
    /\ display = Display("pending", NotEvaluated, NotEvaluated, NoFigure, <<>>)
    /\ price_panel = PanelNotReached
    /\ price_store = <<>>
    /\ BackendAtStart

\* evaluate_formula(left_formula, filtered_data, short_to_technical)
EvaluateLeftFormula ==
    /\ display.status = "pending"
    /\ \E returned \in evaluate_formula(left_formula, filtered_data, short_to_technical) :
           display' = Display("evaluated",
                              [result |-> returned.result, error |-> returned.error,
                               called |-> TRUE, returned |-> returned],
                              NotEvaluated, NoFigure, <<>>)
    /\ UNCHANGED <<widgets, price_panel, price_store, backend>>

NextFormula == EvaluateLeftFormula

SpecFormula == InitFormula /\ [][NextFormula]_vars

(***************************************************************************)
(* The session of the price panel: no formula is typed, the commodity and  *)
(* the date range change, and the price store may hold rows saved before   *)
(* the session.                                                            *)
(***************************************************************************)
\* rows of CORN saved before the session (fetch_all_prices.py)
SavedBefore ==
    << StoredRow("CORN", PriceRow(3, 7)), StoredRow("CORN", PriceRow(1, 5)) >>

InitPrice ==
    /\ selected_commodity \in Range(commodity_list)
    /\ date_range = FullRange(selected_commodity)
    /\ left_formula = <<>>
    /\ right_formula = <<>>
    /\ left_axis_selected_short = DefaultLeftSelection
    /\ right_axis_selected_short = DefaultRightSelection
    /\ display \in RunScript(selected_commodity, date_range, left_formula,
                             right_formula, left_axis_selected_short,
                             right_axis_selected_short)
    /\ \E before \in {<<>>, SavedBefore} :
           \E p \in PricePanel(selected_commodity, date_range, filtered_data, before) :
               /\ price_panel = p.panel
               /\ price_store = p.store
    /\ BackendAtStart

PickCommodity ==
    \E c \in Range(commodity_list) \ {selected_commodity} :
        /\ selected_commodity' = c
        /\ date_range' = FullRange(c)
        /\ UNCHANGED <<left_formula, right_formula, left_axis_selected_short,
                       right_axis_selected_short>>
        /\ Rerun

\* st.download_button: a click reruns the script on the same widget values
ClickDownload ==
    /\ display.status = "shown"
    /\ UNCHANGED widgets
    /\ Rerun

NextPrice ==
    \/ PickCommodity
    \/ ChangeDateRange
    \/ ToggleLeftColumn
    \/ ClickDownload

SpecPrice == InitPrice /\ [][NextPrice]_vars

(***************************************************************************)
(* The writes to the price store: the app and the batch script each save   *)
(* the frame they fetched, whatever the table holds already.               *)
(***************************************************************************)
\* the most rows the table is let to grow to
MaxStoredRows == 5

\* the frames a request can bring
PriceFrames ==
    (UNION { fetch_historical_prices("GC=F", lo, hi) : lo \in 1..4, hi \in 1..4 }
        \cup { [i \in 1..Len(SavedBefore) |->
                   PriceRow(SavedBefore[i].DATE, SavedBefore[i].CLOSE)] })
    \ {<<>>}

InitStore ==
    /\ selected_commodity = "GOLD"
    /\ date_range = FullRange(selected_commodity)
    /\ left_formula = <<>>
    /\ right_formula = <<>>
    /\ left_axis_selected_short = DefaultLeftSelection
    /\ right_axis_selected_short = DefaultRightSelection
    /\ display = Display("pending", NotEvaluated, NotEvaluated, NoFigure, <<>>)
    /\ price_panel = PanelNotReached
    /\ price_store = <<>>
    /\ BackendAtStart

\* save_prices_to_database({commodity_name: df}): fetch_all_prices.py:158 and
\* app.py:517
SavePrices ==
    \E commodity_name \in SessionCommodities, df \in PriceFrames :
        /\ Len(price_store) + Len(df) <= MaxStoredRows
        /\ price_store' = save_prices_to_database(commodity_name, df, price_store)
        /\ UNCHANGED <<widgets, display, price_panel, backend>>

NextStore == SavePrices

SpecStore == InitStore /\ [][NextStore]_vars

(***************************************************************************)
(* Two sessions at once: each runs the price panel of its own pass step by *)
(* step, on the one price store.                                           *)
(***************************************************************************)
SessionIds == {1, 2}

\* a pass: its commodity, the step it is at, the frame it holds, its calls
Pass(commodity, pc, price_data, calls) ==
    [commodity |-> commodity, pc |-> pc, price_data |-> price_data, calls |-> calls]

InitSessions ==
    /\ selected_commodity = "GOLD"
    /\ date_range = FullRange(selected_commodity)
    /\ left_formula = <<>>
    /\ right_formula = <<>>
    /\ left_axis_selected_short = DefaultLeftSelection
    /\ right_axis_selected_short = DefaultRightSelection
    /\ display = Display("pending", NotEvaluated, NotEvaluated, NoFigure, <<>>)
    /\ price_panel = PanelNotReached
    /\ price_store = <<>>
    /\ mapping_table = MappingAtStart
    /\ memo = NotCached
    /\ sessions = [s \in SessionIds |-> Pass("GOLD", "idle", <<>>, <<>>)]

\* app.py:471-481: a rerun of the session, for a commodity with a ticker
StartPass(s) ==
    /\ sessions[s].pc \in {"idle", "done"}
    /\ \E c \in SessionCommodities :
           sessions' = [sessions EXCEPT ![s] =
               Pass(c, "read", <<>>, <<Call("get_price_mapping", <<c>>)>>)]
    /\ UNCHANGED <<widgets, display, price_panel, price_store, mapping_table, memo>>

\* app.py:484-487
ReadStore(s) ==
    /\ sessions[s].pc = "read"
    /\ LET c == sessions[s].commodity
           price_data == get_commodity_prices_from_db(c, price_store)
       IN  sessions' = [sessions EXCEPT ![s] =
               Pass(c, IF price_data = <<>> THEN "fetch" ELSE "show", price_data,
                    Append(sessions[s].calls,
                           Call("get_commodity_prices_from_db", <<c>>)))]
    /\ UNCHANGED <<widgets, display, price_panel, price_store, mapping_table, memo>>

\* app.py:488-500
FetchPrices(s) ==
    /\ sessions[s].pc = "fetch"
    /\ LET c == sessions[s].commodity
           ticker == get_price_mapping(c).ticker_symbol
           data == load_commodity_data(c)
       IN  \E fetched \in fetch_historical_prices(ticker, MinDate(data), MaxDate(data)) :
               sessions' = [sessions EXCEPT ![s] =
                   Pass(c, IF fetched = <<>> THEN "show" ELSE "save", fetched,
                        Append(sessions[s].calls,
                               Call("fetch_historical_prices",
                                    <<ticker, MinDate(data), MaxDate(data)>>)))]
    /\ UNCHANGED <<widgets, display, price_panel, price_store, mapping_table, memo>>

\* app.py:502-517
SaveFetched(s) ==
    /\ sessions[s].pc = "save"
    /\ LET c == sessions[s].commodity
       IN  /\ price_store' = save_prices_to_database(c, sessions[s].price_data,
                                                     price_store)
           /\ sessions' = [sessions EXCEPT ![s] =
                  Pass(c, "show", sessions[s].price_data,
                       Append(sessions[s].calls,
                              Call("save_prices_to_database", <<c>>)))]
    /\ UNCHANGED <<widgets, display, price_panel, mapping_table, memo>>

\* app.py:502-519: the save raises; the except branch reports it with
\* st.error and the pass goes on with the frame it fetched
SaveRaises(s) ==
    /\ sessions[s].pc = "save"
    /\ LET c == sessions[s].commodity
       IN  /\ price_store' = save_prices_raising(c, sessions[s].price_data,
                                                 price_store)
           /\ sessions' = [sessions EXCEPT ![s] =
                  Pass(c, "show", sessions[s].price_data,
                       sessions[s].calls
                           \o <<Call("save_prices_to_database", <<c>>),
                                Call("st.error",
                                     <<get_price_mapping(c).ticker_symbol>>)>>)]
    /\ UNCHANGED <<widgets, display, price_panel, mapping_table, memo>>

\* app.py:521-584
ShowPanel(s) ==
    /\ sessions[s].pc = "show"
    /\ sessions' = [sessions EXCEPT ![s].pc = "done"]
    /\ UNCHANGED <<widgets, display, price_panel, price_store, mapping_table, memo>>

NextSessions ==
    \E s \in SessionIds :
        \/ StartPass(s)
        \/ ReadStore(s)
        \/ FetchPrices(s)
        \/ SaveFetched(s)
        \/ SaveRaises(s)
        \/ ShowPanel(s)

SpecSessions == InitSessions /\ [][NextSessions]_vars

(***************************************************************************)
(* The mapping table under its updates, and the memoized list of the       *)
(* commodities with their price flag that each run of the app asks for.    *)
(***************************************************************************)
InitMapping ==
    /\ selected_commodity = "GOLD"
    /\ date_range = FullRange(selected_commodity)
    /\ left_formula = <<>>
    /\ right_formula = <<>>
    /\ left_axis_selected_short = DefaultLeftSelection
    /\ right_axis_selected_short = DefaultRightSelection
    /\ display = Display("pending", NotEvaluated, NotEvaluated, NoFigure, <<>>)
    /\ price_panel = PanelNotReached
    /\ price_store = <<>>
    /\ mapping_table \in {<<>>, MappingAtStart}
    /\ memo = NotCached
    /\ sessions = NoSessions

\* app.py:173: a run of the script asks for the list
LoadPriceInfo ==
    /\ memo' = cache_data(memo, mapping_table)
    /\ UNCHANGED <<widgets, display, price_panel, price_store, mapping_table, sessions>>

\* commodity_price_mapping.py:45-113
AutoMap ==
    \E overwrite_existing \in BOOLEAN :
        /\ mapping_table' = auto_map_commodities(mapping_table, overwrite_existing)
        /\ UNCHANGED <<widgets, display, price_panel, price_store, memo, sessions>>

\* commodity_price_mapping.py:143-174: a mapping corrected or cleared by hand
UpdateMapping ==
    \E commodity_name \in {"GOLD", "MILK"}, ticker_symbol \in {Null, "GLD"} :
        /\ mapping_table' = update_price_mapping(mapping_table, commodity_name,
                                                 ticker_symbol, TickerType(ticker_symbol),
                                                 TRUE, "checked")
        /\ UNCHANGED <<widgets, display, price_panel, price_store, memo, sessions>>

NextMapping == LoadPriceInfo \/ AutoMap \/ UpdateMapping

SpecMapping == InitMapping /\ [][NextMapping]_vars

(***************************************************************************)
(* Properties of evaluate_formula, of its translator and of its validator  *)
(***************************************************************************)
\* the call made and what it returned
Returned == display.left.returned

HasResult == Returned.result # None

HasError == Returned.error # NoError

\* a text of no characters or of whitespace only
Blank(text) == \A i \in 1..Len(text) : text[i] \in {" ", "\t", "\n"}

\* sub occurs in s
Contains(s, sub) ==
    \E i \in 1..(Len(s) - Len(sub) + 1) : SubSeq(s, i, i + Len(sub) - 1) = sub

\* the identifier tokens of a text: the maximal runs of letters, digits and
\* underscores that begin with a letter or an underscore
IdentifierTokens(text) ==
    LET word == { i \in 1..Len(text) : text[i] \in Letters \cup Digits \cup {"_"} }
    IN  { SubSeq(text, ij[1], ij[2]) : ij \in
            { ij \in (1..Len(text)) \X (1..Len(text)) :
                /\ ij[1] <= ij[2]
                /\ \A k \in ij[1]..ij[2] : k \in word
                /\ text[ij[1]] \notin Digits
                /\ ij[1] = 1 \/ (ij[1] - 1) \notin word
                /\ ij[2] = Len(text) \/ (ij[2] + 1) \notin word } }

\* C1 as stated: every call of evaluate_formula returns exactly one of a
\* series (with no error) and an error (with no series), whatever the text,
\* the empty and the whitespace-only text included.
ExactlyOneOfResultAndError ==
    display.left.called => (HasResult /\ ~HasError) \/ (~HasResult /\ HasError)

\* C1: a call of evaluate_formula on a text that is not blank returns exactly
\* one of a series and an error; a call on an empty or whitespace-only text
\* returns neither.
ExactlyOneUnlessBlank ==
    display.left.called =>
        IF Blank(left_formula)
        THEN ~HasResult /\ ~HasError
        ELSE (HasResult /\ ~HasError) \/ (~HasResult /\ HasError)

BlankTextReturnedNothing ==
    /\ display.left.called
    /\ left_formula = <<" ", "\t">>
    /\ ~HasResult /\ ~HasError

\* the text a label becomes when the shorter label inside it is substituted
PartlySubstituted(long, short) ==
    LET i == CHOOSE i \in 1..Len(long) : SubSeq(long, i, i + Len(short) - 1) = short
    IN  SubSeq(long, 1, i - 1) \o DictGet(short_to_technical, short)
            \o SubSeq(long, i + Len(short), Len(long))

\* C2 as stated: a label that is part of a longer label is never substituted
\* inside the longer label: the translation of a text that contains the
\* longer label holds the longer label's internal id and nowhere the longer
\* label with the shorter one's id in it.
LongerLabelSubstitutedWhole ==
    display.left.called =>
        \A long \in NumericLabels, short \in NumericLabels :
            (long # short /\ Contains(long, short) /\ Contains(left_formula, long))
                => /\ ~Contains(Returned.translated, PartlySubstituted(long, short))
                   /\ Contains(Returned.translated, DictGet(short_to_technical, long))

\* the formulas written with the labels of numeric columns
LabelFormulas ==
    NumericLabels \cup BinaryFormulas(NumericLabels) \cup QuotientFormulas(WordLabels)

\* C3 as stated: a formula written with the labels of numeric columns
\* translates to a text whose identifiers are all internal ids of columns,
\* and it passes the character check and the column check.
LabelFormulaResolves ==
    (display.left.called /\ left_formula \in LabelFormulas) =>
        /\ IdentifierTokens(Returned.translated) \subseteq Range(numeric_columns)
        /\ Returned.error # InvalidCharacters
        /\ Returned.error.msg # ColumnsNotFound(<<>>).msg
        /\ Len(Returned.steps) = 4

\* the characters the validator is said to let through
ClaimedCharacters ==
    {"+", "-", "*", "/", "(", ")", ".", ",", "_", " "} \cup Letters \cup Digits

\* C4 as stated: the validator answers "Invalid characters in formula" to
\* exactly the texts that hold a character outside + - * / ( ) . , 0-9 A-Z
\* a-z _ and the space.
RejectsExactlyOutsideClaimedCharacters ==
    (display.left.called /\ ~Blank(left_formula)) =>
        (Returned.error = InvalidCharacters
            <=> \E i \in 1..Len(Returned.translated) :
                    Returned.translated[i] \notin ClaimedCharacters)

\* C4: the validator answers "Invalid characters in formula" to exactly the
\* texts that hold a character outside + - * / ( ) [ ] . , 0-9 A-Z a-z _ and
\* the space; "Open_Interest_All; DROP TABLE x" is one of them.
RejectsExactlyOutsideAllowedCharacters ==
    (display.left.called /\ ~Blank(left_formula)) =>
        /\ Returned.error = InvalidCharacters
              <=> \E i \in 1..Len(Returned.translated) :
                      Returned.translated[i] \notin ClaimedCharacters \cup {"[", "]"}
        /\ left_formula = DropTableFormula => Returned.error = InvalidCharacters

BracketPassedCharacterCheck ==
    /\ display.left.called
    /\ "[" \in Range(Returned.translated)
    /\ Returned.error # InvalidCharacters
    /\ Len(Returned.steps) > 2

\* the names the column check is said to let through
AllowListedNames ==
    { <<"m", "i", "n">>, <<"m", "a", "x">>,
      <<"s", "u", "m">>, <<"a", "b", "s">>,
      <<"r", "o", "u", "n", "d">> }

\* C5: once the characters are accepted, the answer is "Columns not found"
\* when and only when an identifier token of the text is neither a column of
\* the table nor one of min, max, sum, abs, round, and the answer names
\* those tokens and no other; "NotARealColumn + 1" is answered with
\* NotARealColumn.
ColumnsNotFoundNamesUnknownTokens ==
    (display.left.called /\ ~Blank(left_formula)
         /\ Returned.error # InvalidCharacters) =>
        LET unknown == { t \in IdentifierTokens(Returned.translated) :
                            t \notin Range(data_columns) /\ t \notin AllowListedNames }
        IN  /\ IF unknown = {}
               THEN Returned.error.msg # ColumnsNotFound(<<>>).msg
               ELSE /\ Returned.error.msg = ColumnsNotFound(<<>>).msg
                    /\ Range(Returned.error.names) = unknown
            /\ left_formula = NotARealColumn \o <<" ", "+", " ", "1">>
                  => Returned.error = ColumnsNotFound(<<NotARealColumn>>)

UnknownNameReportedNextToMin ==
    /\ display.left.called
    /\ left_formula = <<"m", "i", "n", "+">> \o NotARealColumn
    /\ Returned.error = ColumnsNotFound(<<NotARealColumn>>)

\* C7 as stated: the series of a quotient (a - b) / c has NaN at exactly the
\* rows whose divisor is zero or missing and a finite value at every other
\* row, and the call returns no error.
QuotientNaNExactlyAtZeroDivisor ==
    display.left.called =>
        \A a \in WordLabels, b \in WordLabels, c \in WordLabels :
            left_formula = Quotient(a, b, c) =>
                LET divisor == ColumnValues(filtered_data, DictGet(short_to_technical, c))
                    series == Returned.result
                IN  /\ ~HasError
                    /\ series.kind = "series"
                    /\ Len(series.vs) = Len(filtered_data)
                    /\ \A i \in 1..Len(series.vs) :
                          IF divisor[i] = Number(0) \/ IsNaN(divisor[i])
                          THEN IsNaN(series.vs[i])
                          ELSE IsFinite(series.vs[i])

\* C8 as stated: a result returned with no error is a series with one value
\* for each row of the filtered table, the result of a formula of literals
\* such as "1+2" included.
ResultHasOneValuePerRow ==
    (display.left.called /\ ~Blank(left_formula) /\ ~HasError
         /\ Returned.result.kind # "other") =>
        /\ Returned.result.kind = "series"
        /\ Len(Returned.result.vs) = Len(filtered_data)

(***************************************************************************)
(* Properties of a run of the script                                       *)
(***************************************************************************)
\* what is said of the evaluation of one axis: data.eval is reached only by
\* a text that is not blank, after its translation and after both checks;
\* a blank text reaches no step and leaves no series and no error
EvalOnlyAfterChecks(axis, formula) ==
    /\ "eval" \in Range(axis.returned.steps) =>
          /\ axis.called /\ ~Blank(formula)
          /\ axis.returned.steps = <<"translate", "characters", "columns", "eval">>
          /\ \A label \in WordLabels : ~Contains(axis.returned.evaluated, label)
          /\ \A i \in 1..Len(axis.returned.evaluated) :
                axis.returned.evaluated[i] \in ClaimedCharacters \cup {"[", "]"}
          /\ IdentifierTokens(axis.returned.evaluated)
                \subseteq Range(data_columns) \cup AllowListedNames
    /\ Blank(formula) =>
          /\ axis.returned.steps = <<>>
          /\ axis.result = None
          /\ axis.error = NoError

\* C6: data.eval is called only on a text that is not blank, that has been
\* translated and that has passed the character check and the column check;
\* an empty or whitespace-only formula never reaches it, and puts no series
\* in the figure and no error on the page.
EvalReachedOnlyByCheckedFormula ==
    /\ EvalOnlyAfterChecks(display.left, left_formula)
    /\ EvalOnlyAfterChecks(display.right, right_formula)
    /\ Blank(left_formula) =>
          /\ \A i \in 1..Len(display.fig) :
                display.fig[i].yaxis = "y" =>
                    display.fig[i].name \in Range(left_axis_selected_short)
          /\ \A i \in 1..Len(display.shown) : display.shown[i].axis # "Left"
    /\ Blank(right_formula) =>
          /\ \A i \in 1..Len(display.fig) :
                display.fig[i].yaxis = "y2" =>
                    display.fig[i].name \in Range(right_axis_selected_short)
          /\ \A i \in 1..Len(display.shown) : display.shown[i].axis # "Right"

WhitespaceLeftAndEvaluatedRight ==
    /\ display.status = "shown"
    /\ left_formula = <<" ">> /\ display.left.called
    /\ display.left.returned.steps = <<>>
    /\ "eval" \in Range(display.right.returned.steps)
    /\ display.fig # NoFigure

\* C9: a run that reaches the composer shows "nothing to render", and no
\* chart, if and only if neither axis has a selected column or a formula
\* result; with no selection and no formula on both axes it always does.
NothingToRenderExactlyWithoutData ==
    display.status \in {"shown", "figure_raised"} =>
        LET nothing == NothingToRender \in Range(display.shown)
            something == \/ left_axis_selected_short # <<>>
                         \/ right_axis_selected_short # <<>>
                         \/ display.left.result # None
                         \/ display.right.result # None
        IN  /\ nothing <=> ~something
            /\ nothing => display.fig = NoFigure
            /\ (/\ left_axis_selected_short = <<>> /\ right_axis_selected_short = <<>>
                /\ left_formula = <<>> /\ right_formula = <<>>) => nothing

NothingToRenderAfterFailedFormula ==
    /\ NothingToRender \in Range(display.shown)
    /\ display.fig = NoFigure
    /\ left_axis_selected_short = <<>> /\ right_axis_selected_short = <<>>
    /\ display.right.error # NoError

\* C10: in every chart, the traces of the left axis come before those of
\* the right axis; on each axis the trace of the formula, named "Formula: "
\* and the text as typed, comes first, and the traces of the selected
\* columns follow in the order of the selection, each named by its label.
TracesInAxisOrder ==
    display.fig # NoFigure =>
        LET Names(axis, formula, selected) ==
                (IF axis.result # None
                 THEN << <<"F", "o", "r", "m", "u", "l", "a", ":", " ">> \o formula >>
                 ELSE <<>>) \o selected
            left == Names(display.left, left_formula, left_axis_selected_short)
            right == Names(display.right, right_formula, right_axis_selected_short)
        IN  [i \in 1..Len(display.fig) |-> <<display.fig[i].name, display.fig[i].yaxis>>]
                = [i \in 1..Len(left) |-> <<left[i], "y">>]
                      \o [i \in 1..Len(right) |-> <<right[i], "y2">>]

ChartOfFormulasAndReorderedColumns ==
    /\ display.fig # NoFigure
    /\ display.left.result # None /\ display.right.result # None
    /\ left_axis_selected_short # <<>>
    /\ right_axis_selected_short = <<Short_Pct_OI_MM_Short, Short_Pct_OI_MM_Long>>

(***************************************************************************)
(* Properties of the errors of a run and of its price panel                *)
(***************************************************************************)
\* the traces an axis is to contribute: its formula's series when it has
\* one, then its selected columns, each with the values of its column
ExpectedTraces(axis, formula, selected, yaxis) ==
    LET dates == [i \in 1..Len(filtered_data) |-> filtered_data[i].date]
    IN  (IF axis.result # None
         THEN << [name |-> <<"F", "o", "r", "m", "u", "l", "a", ":", " ">> \o formula,
                  yaxis |-> yaxis, x |-> dates, y |-> axis.result.vs] >>
         ELSE <<>>)
        \o [i \in 1..Len(selected) |->
               [name |-> selected[i], yaxis |-> yaxis, x |-> dates,
                y |-> ColumnValues(filtered_data,
                                   DictGet(short_to_technical, selected[i]))]]

\* the traces of the figure on one axis, in their order
TracesOn(fig, yaxis) == SelectSeq(fig, LAMBDA t : t.yaxis = yaxis)

\* a result the chart can draw: none, or a series
Drawable(result) == result.kind \in {"none", "series"}

\* what is said of a run in which the formula of one axis (`failed`) gave an
\* error, about the other axis (`other`) and the panel: the run ends as the
\* run without the failed formula does, with the same figure; and when the
\* other axis has nothing the chart cannot draw, the run is shown, the other
\* axis has its traces and the price panel is reached
ErrorLeavesOtherAxis(failed, other, other_formula, other_selected, other_yaxis,
                     without_failed) ==
    failed.error # NoError =>
        /\ \E d \in without_failed :
              /\ d.status = display.status
              /\ d.fig = display.fig
              /\ d.left.result = display.left.result
              /\ d.right.result = display.right.result
        /\ Drawable(other.result) =>
              /\ display.status = "shown"
              /\ price_panel.reached
              /\ (other.result # None \/ other_selected # <<>>) =>
                    TracesOn(display.fig, other_yaxis)
                        = ExpectedTraces(other, other_formula, other_selected,
                                         other_yaxis)

\* C11: an error of the formula of one axis (invalid characters, column not
\* found, evaluation failure) removes and changes nothing of what the other
\* axis contributes to the figure (its selected columns and its formula's
\* series), and does not keep the run from reaching the price panel.
FormulaErrorLeavesOtherAxisAndPanel ==
    /\ ErrorLeavesOtherAxis(display.left, display.right, right_formula,
                            right_axis_selected_short, "y2",
                            RunScript(selected_commodity, date_range, <<>>,
                                      right_formula, left_axis_selected_short,
                                      right_axis_selected_short))
    /\ ErrorLeavesOtherAxis(display.right, display.left, left_formula,
                            left_axis_selected_short, "y",
                            RunScript(selected_commodity, date_range, left_formula,
                                      <<>>, left_axis_selected_short,
                                      right_axis_selected_short))

LeftErrorBesideRightSeries ==
    /\ display.status = "shown"
    /\ display.left.error = InvalidCharacters
    /\ display.right.result.kind = "series"
    /\ Len(right_axis_selected_short) = 2
    /\ Len(TracesOn(display.fig, "y2")) = 3
    /\ price_panel.reached

\* C12 as stated: in every run that ends normally and in which the formula
\* of an axis gave an error, an error message of that axis is shown,
\* whatever the selections, also with no column selected and no formula
\* that succeeded.
FormulaErrorAlwaysShown ==
    display.status = "shown" =>
        /\ display.left.error # NoError =>
              Shown("error", "Left", display.left.error) \in Range(display.shown)
        /\ display.right.error # NoError =>
              Shown("error", "Right", display.right.error) \in Range(display.shown)

\* C13 as stated: every price row the panel draws has a date between the
\* smallest and the largest report date of the filtered positioning rows,
\* the range its x-axis is set to, for a complete and for an incomplete
\* date range alike.
DrawnPricesWithinReportDates ==
    price_panel.reached =>
        \A i \in 1..Len(price_panel.chart.rows) :
            /\ \E j \in 1..Len(filtered_data), k \in 1..Len(filtered_data) :
                  /\ filtered_data[j].date <= price_panel.chart.rows[i].DATE
                  /\ price_panel.chart.rows[i].DATE <= filtered_data[k].date
            /\ price_panel.chart.range[1] <= price_panel.chart.rows[i].DATE
            /\ price_panel.chart.rows[i].DATE <= price_panel.chart.range[2]

\* the rows the price store holds for the selected commodity, and those of
\* them inside the date range (all of them when the range is incomplete)
StoredPrices ==
    { r \in Range(price_store) : r.Commodity_Name = selected_commodity }

StoredPricesInRange ==
    { r \in StoredPrices :
        Len(date_range) = 2 => date_range[1] <= r.DATE /\ r.DATE <= date_range[2] }

\* the selected commodity has a row with a ticker in the mapping table
HasTicker ==
    \E i \in 1..Len(commodity_price_mapping) :
        /\ commodity_price_mapping[i].commodity_name = selected_commodity
        /\ commodity_price_mapping[i].ticker_symbol # ""

\* C14: when there are prices for the commodity and none of them is inside
\* the date range, the run does not fail: its panel shows "Price data
\* available but no data for selected date range", draws no price chart
\* and computes no statistics.
EmptyWindowShowsNoDataForRange ==
    (display.status = "shown" /\ HasTicker
         /\ StoredPrices # {} /\ StoredPricesInRange = {}) =>
        /\ price_panel.reached
        /\ price_panel.messages
              = << Shown("caption", "Price",
                         [msg |-> get_price_mapping(selected_commodity).ticker_symbol,
                          names |-> <<>>]),
                   Shown("info", "Price",
                         [msg |-> "Price data available but no data for selected date range",
                          names |-> <<>>]) >>
        /\ price_panel.chart.rows = <<>>
        /\ price_panel.stats = <<>>

StoredPricesOutsideRange ==
    /\ price_panel.reached
    /\ StoredPrices # {} /\ StoredPricesInRange = {}
    /\ NoDataForRange \in Range(price_panel.messages)

\* C15: when the date filter leaves no report row, the run does not fail on
\* the smallest and largest date of no rows: it ends shown, with an
\* informational message.
NoRowsInRangeShowsInfo ==
    filtered_data = <<>> =>
        /\ display.status = "shown"
        /\ \E i \in 1..Len(display.shown) : display.shown[i].kind = "info"

\* the functions a panel called, in order
Called(panel) == [i \in 1..Len(panel.calls) |-> panel.calls[i].fn]

\* C16: the panel reads the price store and requests prices only for a
\* commodity whose mapping has a ticker, and requests prices only after the
\* store returned no row for it; without a mapping, or with an empty ticker,
\* it does neither and shows only the no-mapping message.
PanelReadsAndFetchesOnlyWithTicker ==
    /\ [](price_panel.reached =>
            /\ Called(price_panel)[1] = "get_price_mapping"
            /\ IF HasTicker
               THEN /\ Len(price_panel.calls) >= 2
                    /\ Called(price_panel)[2] = "get_commodity_prices_from_db"
                    /\ \A i \in 1..Len(price_panel.calls) :
                          Called(price_panel)[i] = "fetch_historical_prices" => i = 3
               ELSE /\ Called(price_panel) = <<"get_price_mapping">>
                    /\ Len(price_panel.messages) = 1
                    /\ price_panel.messages[1].kind = "info"
                    /\ price_panel.messages[1].error.msg
                          = "No price mapping found for this commodity")
    /\ [][(price_panel'.reached
             /\ "fetch_historical_prices" \in Range(Called(price_panel'))) =>
                \A i \in 1..Len(price_store) :
                    price_store[i].Commodity_Name # selected_commodity']_vars

EmptyTickerShowsNoMapping ==
    /\ price_panel.reached
    /\ selected_commodity = "OATS"
    /\ get_price_mapping("OATS") # NoMapping
    /\ price_panel.messages = <<NoPriceMapping>>

\* the requests for prices a panel made
Fetches(panel) ==
    { i \in 1..Len(panel.calls) : panel.calls[i].fn = "fetch_historical_prices" }

\* C17: a run whose store read returns no row for the commodity requests
\* prices exactly once, for the ticker of the mapping: whatever the request
\* brings, it is not repeated and no other ticker is tried.
OneFetchOnCacheMiss ==
    /\ [](price_panel.reached =>
            /\ Cardinality(Fetches(price_panel)) <= 1
            /\ \A i \in Fetches(price_panel) :
                  price_panel.calls[i].args[1]
                      = get_price_mapping(selected_commodity).ticker_symbol)
    /\ [][(price_panel'.reached /\ HasTicker'
             /\ \A i \in 1..Len(price_store) :
                    price_store[i].Commodity_Name # selected_commodity') =>
                Cardinality(Fetches(price_panel')) = 1]_vars

FailedFetchNotRepeated ==
    /\ price_panel.reached
    /\ Cardinality(Fetches(price_panel)) = 1
    /\ StoredPrices = {}
    /\ NoPriceData \in Range(price_panel.messages)

\* the rows a store holds for the other commodities, in the order of the table
RowsOfOthers(store, commodity_name) ==
    SelectSeq(store, LAMBDA r : r.Commodity_Name # commodity_name)

\* the rows a store holds for a commodity, as a bag of its (date, close) pairs
RowsUnder(store, commodity_name) ==
    LET rows == SelectSeq(store, LAMBDA r : r.Commodity_Name = commodity_name)
    IN  [i \in 1..Len(rows) |-> <<rows[i].DATE, rows[i].CLOSE>>]

\* the prices of the upstream service a request asked for
Requested(call) ==
    LET all == market_prices(call.args[1])
        asked == SelectSeq(all, LAMBDA r : call.args[2] <= r.DATE
                                            /\ r.DATE < call.args[3])
    IN  [i \in 1..Len(asked) |-> <<asked[i].DATE, asked[i].CLOSE>>]

NoDuplicateCommodityDate ==
    \A i \in 1..Len(price_store), j \in 1..Len(price_store) :
        (/\ price_store[i].Commodity_Name = price_store[j].Commodity_Name
         /\ price_store[i].DATE = price_store[j].DATE) => i = j

\* the request of the run brought no row: it was made and nothing was saved
FetchFailed ==
    /\ price_panel.reached
    /\ Fetches(price_panel) # {}
    /\ "save_prices_to_database" \notin Range(Called(price_panel))

\* C20: a run whose request for prices fails or brings nothing shows a
\* message that is not the no-mapping message, and its positioning chart is
\* the one chart its widget values give, as after a request that brought
\* rows.
FailedFetchReportedBesideChart ==
    FetchFailed =>
        /\ \E i \in 1..Len(price_panel.messages) :
              /\ price_panel.messages[i].kind \in {"info", "error"}
              /\ price_panel.messages[i].error.msg
                    # "No price mapping found for this commodity"
        /\ \A i \in 1..Len(price_panel.messages) :
              price_panel.messages[i].error.msg
                  # "No price mapping found for this commodity"
        /\ display.status = "shown"
        /\ RunScript(selected_commodity, date_range, left_formula,
                     right_formula, left_axis_selected_short,
                     right_axis_selected_short) = {display}

FailedFetchBesideDrawnChart ==
    /\ FetchFailed
    /\ selected_commodity = "GOLD"
    /\ display.fig # NoFigure
    /\ \E p \in PricePanel(selected_commodity, date_range, filtered_data, <<>>) :
          "save_prices_to_database" \in Range(Called(p.panel))

RECURSIVE TokenEnd(_, _)
TokenEnd(text, i) ==
    IF i < Len(text) /\ text[i + 1] \in Letters \cup Digits \cup {"_"}
    THEN TokenEnd(text, i + 1)
    ELSE i

\* a text shown again with its labels: every identifier in it that is an
\* internal id replaced by get_short_name of the id
RECURSIVE RedisplayFrom(_, _)
RedisplayFrom(text, i) ==
    IF i > Len(text) THEN <<>>
    ELSE IF text[i] \in Letters \cup Digits \cup {"_"}
         THEN LET j == TokenEnd(text, i)
              IN  get_short_name(SubSeq(text, i, j)) \o RedisplayFrom(text, j + 1)
         ELSE <<text[i]>> \o RedisplayFrom(text, i + 1)

\* C22: a formula written with the labels of the numeric columns, the
\* operators + - * / and parentheses, once translated and shown again with
\* get_short_name in place of every internal id, is the formula as written.
TranslationRoundTrip ==
    (display.left.called /\ left_formula \in LabelFormulas) =>
        RedisplayFrom(Returned.translated, 1) = left_formula

QuotientOfLabelsShownAgain ==
    /\ display.left.called
    /\ left_formula = Quotient(Short_MM_Long, Short_MM_Short, Short_Open_Interest)
    /\ Returned.translated # left_formula
    /\ RedisplayFrom(Returned.translated, 1) = left_formula

\* the sessions whose pass for a commodity is running and has done a call
Running(commodity, fn) ==
    { s \in SessionIds :
        /\ sessions[s].pc \in {"read", "fetch", "save", "show"}
        /\ sessions[s].commodity = commodity
        /\ fn \in { sessions[s].calls[i].fn : i \in 1..Len(sessions[s].calls) } }

\* C23: of the passes of two sessions running at once for a commodity the
\* store holds no row of, at most one requests prices and at most one saves
\* them.  Stated for the requests that brought rows: no two running passes
\* for a commodity both hold rows they requested, and the rows of a
\* commodity are not stored twice.
ConcurrentPassesFetchOnce ==
    \A c \in SessionCommodities :
        /\ Cardinality({ s \in Running(c, "fetch_historical_prices") :
                            sessions[s].price_data # <<>> }) <= 1
        /\ Cardinality(Running(c, "save_prices_to_database")) <= 1

BothSessionsSaved ==
    /\ Cardinality(Running("GOLD", "save_prices_to_database")) = 2
    /\ Len(RowsUnder(price_store, "GOLD")) = 2 * Len(sessions[1].price_data)

\* C24: the memoized list is the list a fresh computation gives: after any
\* updates of the mapping table, Has_Price_Data of each commodity in it is
\* the presence of a mapping row for the commodity now.
MemoizedPriceInfoIsFresh ==
    memo.cached =>
        \A i \in 1..Len(memo.value) :
            memo.value[i].Has_Price_Data
                = (\E k \in 1..Len(mapping_table) :
                      mapping_table[k].commodity_name = memo.value[i].Commodity_Name)

\* the row of a commodity in a table
RowOf(table, commodity_name) ==
    table[CHOOSE i \in 1..Len(table) : table[i].commodity_name = commodity_name]

\* the rows a table holds for a commodity
RowsFor(table, commodity_name) ==
    { i \in 1..Len(table) : table[i].commodity_name = commodity_name }

\* C26: auto_map_commodities without overwrite_existing leaves every row of
\* the table as it was and adds rows only for commodities that had none;
\* with overwrite_existing, every commodity that has a ticker ends with one
\* row, of that ticker, with auto_mapped = 1 and verified = 0.
AutoMapKeepsOrReplacesRows ==
    [][/\ mapping_table' = auto_map_commodities(mapping_table, FALSE) =>
            /\ \A i \in 1..Len(mapping_table) :
                  /\ Cardinality(RowsFor(mapping_table', mapping_table[i].commodity_name)) = 1
                  /\ RowOf(mapping_table', mapping_table[i].commodity_name) = mapping_table[i]
            /\ \A k \in 1..Len(mapping_table') :
                  RowsFor(mapping_table, mapping_table'[k].commodity_name) = {} =>
                      /\ mapping_table'[k].ticker_symbol
                            = get_ticker_for_commodity(mapping_table'[k].commodity_name)
                      /\ mapping_table'[k].auto_mapped = 1
                      /\ mapping_table'[k].verified = 0
       /\ mapping_table' = auto_map_commodities(mapping_table, TRUE) =>
            \A n \in 1..Len(commodity_list) :
                get_ticker_for_commodity(commodity_list[n]) # "NULL" =>
                    /\ Cardinality(RowsFor(mapping_table', commodity_list[n])) = 1
                    /\ RowOf(mapping_table', commodity_list[n]).ticker_symbol
                          = get_ticker_for_commodity(commodity_list[n])
                    /\ RowOf(mapping_table', commodity_list[n]).auto_mapped = 1
                    /\ RowOf(mapping_table', commodity_list[n]).verified = 0]_vars

HandMadeRowsBesideAutoMapped ==
    /\ \E i \in 1..Len(mapping_table) :
          /\ mapping_table[i].commodity_name = "GOLD"
          /\ mapping_table[i].notes = "by hand"
          /\ mapping_table[i].verified = 1
    /\ \E i \in 1..Len(mapping_table) :
          /\ mapping_table[i].commodity_name = "MILK"
          /\ mapping_table[i].auto_mapped = 1

\* the translated text holds a character the validator does not allow
HasDisallowedCharacter ==
    \E i \in 1..Len(Returned.translated) :
        Returned.translated[i] \notin ClaimedCharacters \cup {"[", "]"}

\* the translated text names something that is no column and no function
HasUnknownName ==
    \E t \in IdentifierTokens(Returned.translated) :
        t \notin Range(data_columns) /\ t \notin AllowListedNames

\* C25: the checks run in order and one reason is given: a translated text
\* with a disallowed character and an unknown name is answered "Invalid
\* characters in formula", never "Columns not found", and a text that a
\* check rejects is not evaluated.
InvalidCharactersReportedFirst ==
    (display.left.called /\ ~Blank(left_formula)) =>
        /\ HasDisallowedCharacter =>
              /\ HasUnknownName =>
                    /\ Returned.error.msg = "Invalid characters in formula"
                    /\ Returned.error.names = <<>>
                    /\ Returned.steps = <<"translate", "characters">>
              /\ HasError /\ ~HasResult
        /\ Returned.error.msg \in {"Invalid characters in formula", "Columns not found: "} =>
              /\ ~HasResult
              /\ "eval" \notin Range(Returned.steps)
              /\ Returned.evaluated = <<>>

DropTableRejectedForCharacters ==
    /\ display.left.called
    /\ left_formula = DropTableFormula
    /\ HasDisallowedCharacter /\ HasUnknownName
    /\ Returned.error = InvalidCharacters

OneRowPerCommodityAndDate ==
    /\ [](\A c \in Range(commodity_list) :
             \A i \in 1..Len(price_store) :
                 Cardinality({ j \in 1..Len(price_store) :
                                 /\ price_store[j].Commodity_Name = c
                                 /\ price_store[j].DATE = price_store[i].DATE }) <= 1)
    /\ [][price_store' # price_store =>
             /\ get_commodity_prices_from_db(selected_commodity', price_store) = <<>>
             /\ Len(price_store') > Len(price_store)
             /\ SubSeq(price_store', 1, Len(price_store)) = price_store]_vars

RangeChangedAfterRowsWereSaved ==
    /\ price_panel.reached
    /\ selected_commodity = "GOLD"
    /\ date_range # FullRange("GOLD")
    /\ Fetches(price_panel) = {}
    /\ Len(get_commodity_prices_from_db("GOLD", price_store)) = 2
    /\ get_commodity_prices_from_db("CORN", price_store) # <<>>

\* C29: once the store holds a row of a commodity, no later pass requests
\* prices for it, whatever range is selected, and its rows stay the ones
\* saved first.  The rows a pass saves lie between the first and the last
\* date of the positioning rows filtered at that pass, and the price rows a
\* pass draws are rows of the store: after the range is widened the drawn
\* rows are still within the range of the pass that saved them.
NoFetchOnceStored ==
    /\ [][\A c \in Range(commodity_list) :
             RowsUnder(price_store, c) # <<>> =>
                 /\ RowsUnder(price_store', c) = RowsUnder(price_store, c)
                 /\ (price_panel'.reached /\ selected_commodity' = c) =>
                        /\ Fetches(price_panel') = {}
                        /\ \A i \in 1..Len(price_panel'.chart.rows) :
                              <<price_panel'.chart.rows[i].DATE,
                                price_panel'.chart.rows[i].CLOSE>>
                                  \in Range(RowsUnder(price_store, c))]_vars
    /\ [][RowsUnder(price_store', selected_commodity')
              # RowsUnder(price_store, selected_commodity') =>
             /\ RowsUnder(price_store, selected_commodity') = <<>>
             /\ \A r \in Range(RowsUnder(price_store', selected_commodity')) :
                   /\ MinDate(filtered_data') <= r[1]
                   /\ r[1] <= MaxDate(filtered_data')]_vars

WidenedRangeShowsFirstRowsOnly ==
    /\ price_panel.reached
    /\ selected_commodity = "GOLD"
    /\ date_range = FullRange("GOLD")
    /\ Fetches(price_panel) = {}
    /\ RowsUnder(price_store, "GOLD") = << <<3, 12>> >>
    /\ price_panel.chart.rows = <<PriceRow(3, 12)>>
    /\ \E i \in 1..Len(market_prices("GC=F")) :
          /\ market_prices("GC=F")[i].DATE \in date_range[1]..date_range[2]
          /\ market_prices("GC=F")[i] \notin Range(price_panel.chart.rows)

\* the operators of a text, in their order
RECURSIVE OperatorsOf(_)
OperatorsOf(toks) ==
    IF toks = <<>> THEN <<>>
    ELSE IF Head(toks).t \in {"op", "pow"} \/ Head(toks).text \in { <<"/", "/">> }
    THEN <<Head(toks).text>> \o OperatorsOf(Tail(toks))
    ELSE OperatorsOf(Tail(toks))

\* two operators written next to each other with whitespace between, the
\* second one binary only
HasOperatorsApart(text) ==
    \E k \in 1..(Len(Tokens(text)) - 1) :
        /\ Tokens(text)[k].t = "op"
        /\ Tokens(text)[k + 1].t = "op"
        /\ Tokens(text)[k + 1].text[1] \in {"*", "/"}

\* C30: the text handed to the evaluator has the operators of the
\* translated text, in their order: whitespace next to + - * / is deleted
\* and no two operators written apart become one operator ("**", "//"); a
\* formula with two binary operators written apart ends as an evaluation
\* failure, never as a computed value.
NormalizationKeepsOperators ==
    (display.left.called /\ Returned.evaluated # <<>>) =>
        /\ OperatorsOf(Tokens(Returned.evaluated))
               = OperatorsOf(Tokens(Returned.translated))
        /\ HasOperatorsApart(Returned.translated) =>
               /\ Returned.result.kind \notin {"series", "scalar"}
               /\ Returned.result.kind = "none" => Returned.error = FormulaError

\* a * * b was evaluated as a ** b and gave a series
OperatorsApartGaveAPower ==
    /\ display.left.called
    /\ HasOperatorsApart(Returned.translated)
    /\ \E k \in 1..Len(Tokens(Returned.evaluated)) :
          Tokens(Returned.evaluated)[k].t = "pow"
    /\ Returned.result.kind = "series"
    /\ Returned.error = NoError

============================================================================
